---------------------------- MODULE Spec2Model ----------------------------
(***************************************************************************)
(* Model of the electromagnetic-interference engine of                     *)
(* inducao_duto_travessia (emi_system.py, visualization.py, duto.py,       *)
(* teste_basico.py).                                                       *)
(*                                                                         *)
(* Numbers.  A float of the program is a record [k, n, e]:                 *)
(*   k = "num"   the binary float n * 2^e (n odd, or n = 0 and e = 0)      *)
(*   k = "nan"   IEEE not-a-number                                         *)
(*   k = "inf"   IEEE infinity of sign n (1 or -1)                         *)
(*   k = "raise" a Python exception ended the computation (n names it)     *)
(* Every operation rounds its result to a mantissa of at most PRECISAO, to *)
(* nearest and ties to even, as IEEE arithmetic does with 2^53; the        *)
(* exponent is unbounded.  The IEEE special values and the exceptions      *)
(* propagate as numpy / Python propagate them.  The square root is the     *)
(* rounded square root.  exp, log, cos and arctan are replaced by the      *)
(* rational functions named ExpAprox, Ln, Cos and ArcTan below, which keep *)
(* the sign, the zeros, the fixed points and the domain errors of the      *)
(* functions they stand for.  No claim is settled on the numeric value of  *)
(* one of them.                                                            *)
(*                                                                         *)
(* State.  solo, duto and cabos are the objects of one analysis            *)
(* (solo.parametros, the Duto, lt.cabos) and OMEGA the module global of    *)
(* emi_system.py.  op names the last operation, arg its argument and ret   *)
(* what it returned.  varredura is the position of the visualizer inside a *)
(* sweep, and primeira the first call of calcular_tensao_induzida_total.   *)
(***************************************************************************)
EXTENDS Integers, Sequences, FiniteSets, TLC

VARIABLES solo, OMEGA, duto, cabos, op, arg, ret, varredura, primeira

vars == <<solo, OMEGA, duto, cabos, op, arg, ret, varredura, primeira>>

---------------------------------------------------------------------------
(* Binary floating point *)

\* The element of a singleton.  Valor({e(a) : a \in {v}}) is e of the value
\* of v: the operand v is evaluated once, before the operation, as Python
\* evaluates the arguments of a call
Valor(S) == CHOOSE r \in S : TRUE

Abs(i) == IF i < 0 THEN -i ELSE i

Sgn(i) == IF i < 0 THEN -1 ELSE IF i = 0 THEN 0 ELSE 1

\* The precision of the floats of the model: the largest mantissa
PRECISAO == 16384

\* number of binary digits of a natural number below 2^8, below 2^31
Bits8(i) == CHOOSE b \in 0..8 : i < 2^b

Bits(i) ==
    IF i < 2^8 THEN Bits8(i)
    ELSE IF i < 2^16 THEN 8 + Bits8(i \div 2^8)
    ELSE IF i < 2^24 THEN 16 + Bits8(i \div 2^16)
    ELSE 24 + Bits8(i \div 2^24)

\* The float s * m * 2^e (m >= 0) in its unique representation: odd mantissa
Float(s, m, e) ==
    IF m = 0 THEN [k |-> "num", n |-> 0, e |-> 0]
    ELSE Valor({([k |-> "num", n |-> s * (m \div 2^z), e |-> e + z])
        : z \in {CHOOSE z \in 0..31 : m % 2^z = 0 /\ m % 2^(z + 1) # 0}})

\* the shift that brings the natural m within the precision
Desloc(m) ==
    IF m <= PRECISAO THEN 0
    ELSE Valor({(
             IF sh >= 0 /\ m \div 2^sh <= PRECISAO THEN sh ELSE sh + 1)
                 : sh \in {Bits(m) - Bits(PRECISAO)}})

\* m * 2^(-sh) rounded to an integer, to nearest and ties to even, where
\* sticky tells that m stands for a value between m and m + 1
Quantizar(m, sh, sticky) ==
    LET q == m \div 2^sh
        r == m % 2^sh
        half == IF sh = 0 THEN 1 ELSE 2^(sh - 1)
    IN  IF sh > 0 /\ (r > half \/ (r = half /\ (sticky \/ q % 2 = 1)))
        THEN q + 1 ELSE q

\* s * (m + f) * 2^e rounded to the precision, where 0 <= f < 1 and sticky
\* tells whether f > 0
Arredondar(s, m0, e, sticky) ==
    Valor({(
    Valor({(
    Valor({(
        IF q > PRECISAO THEN Float(s, q \div 2, e + sh + 1)
        ELSE Float(s, q, e + sh))
            : q \in {Quantizar(m, sh, sticky)}}))
            : sh \in {Desloc(m)}}))
            : m \in {m0}})

FInt(i) == Arredondar(Sgn(i), Abs(i), 0, FALSE)

NaN == [k |-> "nan", n |-> 0, e |-> 0]

Inf(s) == [k |-> "inf", n |-> s, e |-> 0]

\* The Python exceptions the arithmetic of the program raises
ZeroDivisionError == 1

ValueError == 2

\* A Python exception: n names it
Raise(x) == [k |-> "raise", n |-> x, e |-> 0]

IsNum(a) == a.k = "num"

IsZero(a) == a.k = "num" /\ a.n = 0

\* sign of a number or an infinity
SignOf(a) == Sgn(a.n)

\* The first exception raised in an expression of two operands
Raised(a, b) == IF a.k = "raise" THEN a ELSE b

FNeg(x) ==
    Valor({(
        CASE a.k = "num" -> [a EXCEPT !.n = -a.n]
          [] a.k = "inf" -> Inf(-a.n)
          [] OTHER -> a) : a \in {x}})

\* position of the leading binary digit of a nonzero float
Topo(a) == a.e + Bits(Abs(a.n))

\* The rounded sum of two nonzero floats, x the one of the larger leading
\* digit: x is shifted left and y aligned to the exponent of x
SomaAlinhada(x, y) ==
    Valor({(
        LET ex == x.e - t
            X == Abs(x.n) * 2^t
            sh == ex - y.e
            ym == Abs(y.n)
            Y == IF sh <= 0 THEN ym * 2^(-sh)
                 ELSE IF sh > 29 THEN 0 ELSE ym \div 2^sh
            st == sh > 0 /\ (sh > 29 \/ ym % 2^sh # 0)
            M == IF Sgn(x.n) = Sgn(y.n) THEN X + Y
                 ELSE X - Y - (IF st THEN 1 ELSE 0)
        IN  Valor({(
                Arredondar(IF v < 0 THEN -Sgn(x.n) ELSE Sgn(x.n), Abs(v), ex, st))
                    : v \in {M}}))
                    : t \in {29 - Bits(Abs(x.n))}})

FAdd(x, y) ==
    Valor({(
        CASE a.k = "raise" \/ b.k = "raise" -> Raised(a, b)
          [] a.k = "nan" \/ b.k = "nan" -> NaN
          [] a.k = "inf" /\ b.k = "inf" -> IF a.n = b.n THEN a ELSE NaN
          [] a.k = "inf" -> a
          [] b.k = "inf" -> b
          [] a.n = 0 -> b
          [] b.n = 0 -> a
          [] OTHER -> IF Topo(a) >= Topo(b) THEN SomaAlinhada(a, b)
                      ELSE SomaAlinhada(b, a)) : a \in {x}, b \in {y}})

FSub(a, b) == FAdd(a, FNeg(b))

FMul(x, y) ==
    Valor({(
        CASE a.k = "raise" \/ b.k = "raise" -> Raised(a, b)
          [] a.k = "nan" \/ b.k = "nan" -> NaN
          [] a.k = "inf" \/ b.k = "inf" ->
                IF IsZero(a) \/ IsZero(b) THEN NaN
                ELSE Inf(SignOf(a) * SignOf(b))
          [] OTHER -> Arredondar(Sgn(a.n) * Sgn(b.n), Abs(a.n) * Abs(b.n),
                                 a.e + b.e, FALSE)) : a \in {x}, b \in {y}})

\* The rounded quotient of a nonzero float by a nonzero float
Quociente(a, b) ==
    Valor({(
        Arredondar(Sgn(a.n) * Sgn(b.n), (Abs(a.n) * 2^t) \div Abs(b.n),
                   a.e - t - b.e, (Abs(a.n) * 2^t) % Abs(b.n) # 0))
                       : t \in {30 - Bits(Abs(a.n))}})

\* numpy division: x/0 is an infinity (0/0 a NaN) with a RuntimeWarning
FDivNp(x, y) ==
    Valor({(
        CASE a.k = "raise" \/ b.k = "raise" -> Raised(a, b)
          [] a.k = "nan" \/ b.k = "nan" -> NaN
          [] a.k = "inf" /\ b.k = "inf" -> NaN
          [] a.k = "inf" -> Inf(a.n * (IF SignOf(b) < 0 THEN -1 ELSE 1))
          [] b.k = "inf" -> FInt(0)
          [] IsZero(b) -> IF IsZero(a) THEN NaN ELSE Inf(SignOf(a))
          [] IsZero(a) -> a
          [] OTHER -> Quociente(a, b)) : a \in {x}, b \in {y}})

\* Python float division: x/0 raises ZeroDivisionError
FDivPy(x, y) ==
    Valor({(
        IF a.k # "raise" /\ IsZero(b) THEN Raise(ZeroDivisionError)
        ELSE FDivNp(a, b)) : a \in {x}, b \in {y}})

\* The float literal n/d of two integers (d # 0), e.g. Num(1, 10) for 0.1
Num(n, d) == FDivNp(FInt(n), FInt(d))

\* a < b as the program evaluates it: False when an operand is NaN
FLt(x, y) ==
    Valor({(
        CASE a.k = "nan" \/ b.k = "nan" -> FALSE
          [] a.k = "inf" /\ b.k = "inf" -> a.n < b.n
          [] a.k = "inf" -> a.n < 0
          [] b.k = "inf" -> b.n > 0
          [] OTHER -> SignOf(FSub(a, b)) < 0) : a \in {x}, b \in {y}})

FLe(x, y) == Valor({(FLt(a, b) \/ (a.k # "nan" /\ a = b)) : a \in {x}, b \in {y}})

FAbs(x) ==
    Valor({(
        CASE a.k = "num" -> [a EXCEPT !.n = Abs(a.n)]
          [] a.k = "inf" -> Inf(1)
          [] OTHER -> a) : a \in {x}})

---------------------------------------------------------------------------
(* Elementary functions *)

\* floor of the square root of a natural number (Newton's iteration)
RECURSIVE ISqrtFrom(_, _)
ISqrtFrom(n, x) ==
    Valor({(
        IF y >= x THEN x ELSE ISqrtFrom(n, y)) : y \in {(x + n \div x) \div 2}})

ISqrt(n) == IF n = 0 THEN 0 ELSE ISqrtFrom(n, 2^((Bits(n) + 1) \div 2))

\* The rounded square root of a float a > 0: the mantissa is aligned to an
\* even exponent and its integer square root rounded
Raiz(a) ==
    Valor({(
    Valor({(
        Arredondar(1, R, (a.e - t) \div 2, R * R # a.n * 2^t))
            : R \in {ISqrt(a.n * 2^t)}}))
            : t \in {IF (a.e - (30 - Bits(a.n))) % 2 = 0 THEN 30 - Bits(a.n)
         ELSE 29 - Bits(a.n)}})

\* np.sqrt: NaN (and a RuntimeWarning, no exception) below zero
NpSqrt(x) ==
    Valor({(
        CASE a.k = "raise" -> a
          [] a.k = "nan" -> NaN
          [] a.k = "inf" -> IF a.n > 0 THEN a ELSE NaN
          [] a.n < 0 -> NaN
          [] a.n = 0 -> a
          [] OTHER -> Raiz(a)) : a \in {x}})

\* math.sqrt: ValueError (math domain error) below zero
MathSqrt(x) ==
    Valor({(
        CASE a.k = "raise" -> a
          [] a.k = "nan" -> NaN
          [] a.k = "inf" -> IF a.n > 0 THEN a ELSE Raise(ValueError)
          [] a.n < 0 -> Raise(ValueError)
          [] a.n = 0 -> a
          [] OTHER -> Raiz(a)) : a \in {x}})

\* exp of a float: 1/(1 - x) for x <= 0 and 1 + x for x > 0; positive,
\* nondecreasing, 1 at 0
ExpAprox(a) ==
    IF a.n <= 0 THEN FDivNp(FInt(1), FSub(FInt(1), a)) ELSE FAdd(FInt(1), a)

\* np.exp / math.exp
Exp(x) ==
    Valor({(
        CASE a.k = "raise" -> a
          [] a.k = "nan" -> NaN
          [] a.k = "inf" -> IF a.n > 0 THEN a ELSE FInt(0)
          [] OTHER -> ExpAprox(a)) : a \in {x}})

\* x ** 2
FSq(x) == Valor({(FMul(a, a)) : a \in {x}})

---------------------------------------------------------------------------
(* Physical constants (emi_system.py 8-11) *)

\* 10 ** -e for a natural e, as the decimal literals 1e-7, 1e-12 round
RECURSIVE DezElevadoMenos(_)
DezElevadoMenos(x) ==
    IF x = 0 THEN FInt(1) ELSE FDivNp(DezElevadoMenos(x - 1), FInt(10))

\* np.pi
PI == Num(355, 113)

\* 4 * np.pi * 1e-7
MU_0 == FMul(FMul(FInt(4), PI), DezElevadoMenos(7))

\* 8.854187817e-12, to the precision
EPSILON_0 == FMul(Num(8854, 1000), DezElevadoMenos(12))

\* 2 * np.pi * f
OmegaDe(f) == FMul(FMul(FInt(2), PI), f)

\* Default of the parameter frequencia of resistividade_equivalente_uniforme
FREQ_PADRAO == 60

---------------------------------------------------------------------------
(* Complex numbers: [re, im], two floats *)

C(re, im) == [re |-> re, im |-> im]

CReal(a) == C(a, FInt(0))

\* 1j * a for a float a
CImag(a) == C(FInt(0), a)

CAdd(x, y) ==
    Valor({(C(FAdd(u.re, v.re), FAdd(u.im, v.im))) : u \in {x}, v \in {y}})

CSub(x, y) ==
    Valor({(C(FSub(u.re, v.re), FSub(u.im, v.im))) : u \in {x}, v \in {y}})

CMul(x, y) ==
    Valor({(
        C(FSub(FMul(u.re, v.re), FMul(u.im, v.im)),
          FAdd(FMul(u.re, v.im), FMul(u.im, v.re)))) : u \in {x}, v \in {y}})

\* a float times a complex
CScale(x, y) == Valor({(C(FMul(a, u.re), FMul(a, u.im))) : a \in {x}, u \in {y}})

\* u ** 2
CSq(x) == Valor({(CMul(u, u)) : u \in {x}})

\* |u| ** 2
CAbs2(x) == Valor({(FAdd(FSq(u.re), FSq(u.im))) : u \in {x}})

\* abs(u)
CAbs(u) == NpSqrt(CAbs2(u))

\* abs(u) < t for a float t >= 0, compared on the squares so that no
\* rounding of the square root decides the branch
AbsMenorQue(u, t) == FLt(CAbs2(u), FSq(t))

\* np.cos of a float: (4 - x^2)/(4 + x^2); even, 1 at 0, within (-1, 1]
Cos(x) ==
    Valor({(
        CASE a.k = "raise" -> a
          [] a.k = "num" ->
                Valor({(
                    FDivNp(FSub(FInt(4), q), FAdd(FInt(4), q))) : q \in {FSq(a)}})
          [] OTHER -> NaN) : a \in {x}})

\* np.cos(np.angle(u)): the cosine of the argument of u is Re(u)/|u|, and
\* np.angle(0) is 0
CosAngle(x) ==
    Valor({(
        IF IsZero(u.re) /\ IsZero(u.im) THEN FInt(1)
        ELSE FDivNp(u.re, CAbs(u))) : u \in {x}})

\* numpy complex division
CDivNp(x, y) ==
    Valor({(
        Valor({(
            C(FDivNp(FAdd(FMul(u.re, v.re), FMul(u.im, v.im)), m),
              FDivNp(FSub(FMul(u.im, v.re), FMul(u.re, v.im)), m)))
                  : m \in {CAbs2(v)}}))
                  : u \in {x}, v \in {y}})

\* a rounded square root may exceed the modulus by one unit of rounding
NaoNegativo(x) ==
    Valor({(IF a.k = "num" /\ a.n < 0 THEN FInt(0) ELSE a) : a \in {x}})

\* np.sqrt of a complex number: the principal root
CSqrt(x) ==
    Valor({(
        Valor({(
            C(NpSqrt(NaoNegativo(FDivNp(FAdd(m, w.re), FInt(2)))),
              IF w.im.k = "num" /\ w.im.n < 0
              THEN FNeg(NpSqrt(NaoNegativo(FDivNp(FSub(m, w.re), FInt(2)))))
              ELSE NpSqrt(NaoNegativo(FDivNp(FSub(m, w.re), FInt(2))))))
                  : m \in {CAbs(w)}}))
                  : w \in {x}})

\* np.log of a float: -inf at 0 and NaN below (RuntimeWarning, no
\* exception); 2(x - 1)/(x + 1) for a float x > 0: 0 at 1 only,
\* negative below 1 and positive above
Ln(x) ==
    Valor({(
        CASE a.k = "raise" -> a
          [] a.k = "nan" -> NaN
          [] a.k = "inf" -> IF a.n > 0 THEN a ELSE NaN
          [] a.n < 0 -> NaN
          [] a.n = 0 -> Inf(-1)
          [] OTHER -> FDivNp(FMul(FInt(2), FSub(a, FInt(1))), FAdd(a, FInt(1))))
              : a \in {x}})

\* np.arctan of a float q with |q| <= 1: q / (1 + 9 q^2 / 32); odd, 0 at 0
\* only, increasing
ArcTan(x) ==
    Valor({(FDivNp(q, FAdd(FInt(1), FMul(Num(9, 32), FSq(q))))) : q \in {x}})

\* np.angle of a complex number, arctan2(im, re), in (-pi, pi]; NaN for a
\* component that is not a finite number
Angle(x) ==
    Valor({(
        CASE u.re.k = "raise" \/ u.im.k = "raise" -> Raised(u.re, u.im)
          [] u.re.k # "num" \/ u.im.k # "num" -> NaN
          [] u.re.n = 0 /\ u.im.n = 0 -> FInt(0)
          [] FLe(FAbs(u.im), FAbs(u.re)) ->
                IF u.re.n > 0 THEN ArcTan(FDivNp(u.im, u.re))
                ELSE IF u.im.n >= 0 THEN FAdd(ArcTan(FDivNp(u.im, u.re)), PI)
                ELSE FSub(ArcTan(FDivNp(u.im, u.re)), PI)
          [] OTHER ->
                IF u.im.n > 0
                THEN FSub(FDivNp(PI, FInt(2)), ArcTan(FDivNp(u.re, u.im)))
                ELSE FSub(FNeg(FDivNp(PI, FInt(2))), ArcTan(FDivNp(u.re, u.im))))
           : u \in {x}})

\* np.degrees
Degrees(x) == FDivNp(FMul(x, FInt(180)), PI)

IsNaN(a) == a.k = "nan"

CIsNaN(u) == IsNaN(u.re) \/ IsNaN(u.im)

---------------------------------------------------------------------------
(* The Struve-Bessel approximation, twice in emi_system.py *)

\* 2 / np.pi
DoisSobrePi == FDivPy(FInt(2), PI)

\* The branch threshold 0.1 of both copies
LIMIAR_SB == Num(1, 10)

\* struve_bessel_approx, local to calcular_impedancia_mutua_carson_fechada
struve_bessel_approx(x) ==
    Valor({(
        IF AbsMenorQue(u, LIMIAR_SB)
        THEN CScale(DoisSobrePi,
                    CAdd(CSub(CReal(FInt(1)), CScale(Num(1, 8), CSq(u))),
                         CScale(Num(1, 192), CSq(CSq(u)))))
        ELSE CReal(FMul(DoisSobrePi,
                        FSub(FInt(1), FMul(Exp(FNeg(CAbs(u))), CosAngle(u))))))
                            : u \in {x}})

\* termo_integral of Duto.calcular_impedancia_propria
TermoIntegral(x) ==
    Valor({(
        IF AbsMenorQue(u, LIMIAR_SB)
        THEN CScale(DoisSobrePi, CSub(CReal(FInt(1)), CScale(Num(1, 8), CSq(u))))
        ELSE CReal(FMul(DoisSobrePi,
                        FSub(FInt(1), FMul(Exp(FNeg(FAbs(u.re))), Cos(u.im))))))
                            : u \in {x}})

---------------------------------------------------------------------------
(* Solo (emi_system.py 33-57) *)

\* ParametrosSolo: the dataclass has no validation
ParametrosSolo(rho1, rho2, h1, eps) ==
    [resistividade_camada1 |-> rho1, resistividade_camada2 |-> rho2,
     espessura_camada1 |-> h1, permissividade_relativa |-> eps]

\* Tsiamitros with the second factor of the denominator summed instead of
\* subtracted: (a1 + a2) - (a1 + a2) * exp_term
TsiamitrosMut(p, f, sqrtNp) ==
    LET rho1 == p.resistividade_camada1
        rho2 == p.resistividade_camada2
        h1 == p.espessura_camada1
        sq(x) == IF sqrtNp THEN NpSqrt(x) ELSE MathSqrt(x)
        dv(x, y) == IF sqrtNp THEN FDivNp(x, y) ELSE FDivPy(x, y)
    IN  Valor({(
        IF sqrt_rho1_inv.k = "raise" THEN sqrt_rho1_inv
        ELSE IF sqrt_rho2_inv.k = "raise" THEN sqrt_rho2_inv
        ELSE Valor({(
            LET numerator ==
                    FAdd(FAdd(sqrt_rho1_inv, sqrt_rho2_inv),
                         FMul(FSub(sqrt_rho1_inv, sqrt_rho2_inv), exp_term))
                denominator ==
                    FSub(FAdd(sqrt_rho1_inv, sqrt_rho2_inv),
                         FMul(FAdd(sqrt_rho1_inv, sqrt_rho2_inv), exp_term))
            IN  FMul(rho1, FSq(dv(numerator, denominator))))
            : exp_term \in
                {Exp(FMul(FMul(FInt(-2), h1),
                          sq(FDivPy(FMul(FMul(PI, f), MU_0), rho1))))}}))
            : sqrt_rho1_inv \in {sq(FDivPy(FInt(1), rho1))},
              sqrt_rho2_inv \in {sq(FDivPy(FInt(1), rho2))}})

\* The reduction of the two layers to one (formula of Tsiamitros), which
\* emi_system.py states with np.sqrt (sqrtNp) and teste_basico.py with
\* math.sqrt.  1/rho and pi*f*mu1/rho1 divide Python floats; the quotient
\* numerator/denominator divides what the square roots returned: numpy
\* floats in emi_system.py, Python floats in teste_basico.py.
Tsiamitros(p, f, sqrtNp) ==
    LET rho1 == p.resistividade_camada1
        rho2 == p.resistividade_camada2
        h1 == p.espessura_camada1
        sq(x) == IF sqrtNp THEN NpSqrt(x) ELSE MathSqrt(x)
        dv(x, y) == IF sqrtNp THEN FDivNp(x, y) ELSE FDivPy(x, y)
    IN  Valor({(
        IF sqrt_rho1_inv.k = "raise" THEN sqrt_rho1_inv
        ELSE IF sqrt_rho2_inv.k = "raise" THEN sqrt_rho2_inv
        ELSE Valor({(
            LET numerator ==
                    FAdd(FAdd(sqrt_rho1_inv, sqrt_rho2_inv),
                         FMul(FSub(sqrt_rho1_inv, sqrt_rho2_inv), exp_term))
                denominator ==
                    FSub(FAdd(sqrt_rho1_inv, sqrt_rho2_inv),
                         FMul(FSub(sqrt_rho1_inv, sqrt_rho2_inv), exp_term))
            IN  FMul(rho1, FSq(dv(numerator, denominator))))
            : exp_term \in
                {Exp(FMul(FMul(FInt(-2), h1),
                          sq(FDivPy(FMul(FMul(PI, f), MU_0), rho1))))}}))
            : sqrt_rho1_inv \in {sq(FDivPy(FInt(1), rho1))},
              sqrt_rho2_inv \in {sq(FDivPy(FInt(1), rho2))}})

\* Solo.resistividade_equivalente_uniforme of emi_system.py (np.sqrt)
resistividade_equivalente_uniforme(p, f) == Tsiamitros(p, f, TRUE)

\* Solo.resistividade_equivalente_uniforme of teste_basico.py (math.sqrt)
resistividade_equivalente_uniforme_teste(p, f) == Tsiamitros(p, f, FALSE)

---------------------------------------------------------------------------
(* Duto (emi_system.py 125-218).  The methods read the module global       *)
(* OMEGA, which is the parameter omega here.                               *)

Coordenadas(x, y, z) == [x |-> x, y |-> y, z |-> z]

\* Duto._obter_propriedades_material: dict.get with the steel entry as
\* default; 2.82e-8 and 1.72e-7 ohm.m
obter_propriedades_material(material) ==
    IF material = "aluminio"
    THEN [resistividade |-> FMul(Num(282, 100), DezElevadoMenos(8)),
          permeabilidade_relativa |-> FInt(1)]
    ELSE [resistividade |-> FMul(Num(172, 100), DezElevadoMenos(7)),
          permeabilidade_relativa |-> FInt(300)]

\* Duto.__init__: no argument is validated
Duto(coordenadas, diametro, espessura_parede, espessura_revestimento, material) ==
    [coordenadas |-> coordenadas,
     diametro |-> diametro,
     raio_externo |-> FDivPy(diametro, FInt(2)),
     raio_interno |-> FSub(FDivPy(diametro, FInt(2)), espessura_parede),
     espessura_revestimento |-> espessura_revestimento,
     propriedades |-> obter_propriedades_material(material),
     resistividade_revestimento |-> FMul(FInt(10000), FInt(10000)),
     permissividade_revestimento |-> Num(23, 10)]

\* Duto._calcular_rmg_tubular
calcular_rmg_tubular(d) ==
    LET r_ext == d.raio_externo
        r_int == d.raio_interno
        r_ext2 == FSq(r_ext)
        r_int2 == FSq(r_int)
        ln_rmg ==
            FSub(Ln(r_ext),
                 FDivNp(FAdd(FSub(FSq(r_ext2), FMul(r_int2, r_ext2)),
                             FMul(FSq(r_int2),
                                  FAdd(Num(3, 4), Ln(FDivPy(r_int, r_ext))))),
                        FSq(FSub(r_ext2, r_int2))))
    IN  Exp(ln_rmg)

\* Duto.calcular_impedancia_propria
calcular_impedancia_propria(d, p, omega) ==
    LET rho_d == d.propriedades.resistividade
        mu_d == FMul(d.propriedades.permeabilidade_relativa, MU_0)
        Z_interno ==
            CScale(FDivNp(NpSqrt(FMul(FMul(rho_d, mu_d), omega)),
                          FMul(FMul(FMul(PI, FInt(2)), d.raio_externo),
                               NpSqrt(FInt(2)))),
                   C(FInt(1), FInt(1)))
    IN  Valor({(
        Valor({(
            CAdd(CAdd(Z_interno,
                      CMul(fator, CReal(Ln(FDivNp(FMul(FInt(2), absz), RMG_tu))))),
                 CMul(fator, TermoIntegral(u))))
               : u \in {CScale(FMul(FInt(2), absz),
                               CSqrt(CImag(FDivNp(FMul(omega, MU_0), rho_solo))))}})
           ) : rho_solo \in {resistividade_equivalente_uniforme(p, FInt(FREQ_PADRAO))},
               RMG_tu \in {calcular_rmg_tubular(d)},
               fator \in {CImag(FDivPy(FMul(omega, MU_0), FMul(FInt(2), PI)))},
               absz \in {FAbs(d.coordenadas.z)}})

\* Duto.calcular_admitancia_shunt
calcular_admitancia_shunt(d, omega) ==
    LET G == FDivPy(FMul(FMul(PI, FInt(2)), d.raio_externo),
                    FMul(d.resistividade_revestimento, d.espessura_revestimento))
        Cap == FDivPy(FMul(FMul(FMul(FMul(EPSILON_0, d.permissividade_revestimento),
                                     PI), FInt(2)), d.raio_externo),
                      d.espessura_revestimento)
    IN  C(G, FMul(omega, Cap))

\* Duto.calcular_impedancia_caracteristica
calcular_impedancia_caracteristica(d, p, omega) ==
    Valor({(CSqrt(CDivNp(Z_d, Y_d)))
           : Z_d \in {calcular_impedancia_propria(d, p, omega)},
             Y_d \in {calcular_admitancia_shunt(d, omega)}})

\* Duto.calcular_constante_propagacao
calcular_constante_propagacao(d, p, omega) ==
    Valor({(CSqrt(CMul(Z_d, Y_d)))
           : Z_d \in {calcular_impedancia_propria(d, p, omega)},
             Y_d \in {calcular_admitancia_shunt(d, omega)}})

---------------------------------------------------------------------------
(* Cabo and LinhaTransmissao (emi_system.py 59-123) *)

Cabo(coordenadas, corrente, raio, tipo) ==
    [coordenadas |-> coordenadas, corrente |-> corrente, raio |-> raio,
     tipo |-> tipo]

\* The locals of calcular_impedancia_mutua_carson_fechada with the offsets
\* dy_ij (of D_ij) and dy_ij_prime (of D_ij_prime) named; Z is the value
\* returned.  omega is the module global OMEGA; frequencia is the frequency
\* resistividade_equivalente_uniforme() runs with, the default of its
\* parameter, as the call passes no argument.
MutuaLocais(cabo, d, p, omega) ==
    LET x_cabo == cabo.coordenadas.x
        frequencia == FInt(FREQ_PADRAO)
        y_cabo == cabo.coordenadas.y
        x_duto == d.coordenadas.x
        z_duto == d.coordenadas.z
        H == FAdd(y_cabo, FAbs(z_duto))
        D == FSub(x_duto, x_cabo)
        dy_ij == FSub(y_cabo, z_duto)
        dy_ij_prime == FAdd(y_cabo, FAbs(z_duto))
        epsilon_r == p.permissividade_relativa
        fator == CImag(FDivPy(FMul(omega, MU_0), FMul(FInt(2), PI)))
        termo(u) ==
            CSub(CMul(CDivNp(CReal(PI), CScale(FInt(2), u)), struve_bessel_approx(u)),
                 CDivNp(CReal(FInt(1)), CSq(u)))
    IN  Valor({(
        Valor({(
        Valor({(
        Valor({(
        Valor({(
            [dy_ij |-> dy_ij, dy_ij_prime |-> dy_ij_prime,
             D_ij |-> D_ij, D_ij_prime |-> D_ij_prime,
             Z_primeira |-> Z_primeira,
             frequencia |-> frequencia, omega |-> omega,
             Z |-> CAdd(Z_primeira, Z_segunda)])
            : Z_segunda \in {CMul(fator, CAdd(termo(u1), termo(u2)))}}))
            : u1 \in {CMul(gamma_propagacao, C(H, FNeg(D)))},
              u2 \in {CMul(gamma_propagacao, C(H, D))}}))
            : gamma_propagacao \in
                {CSqrt(C(FNeg(FMul(FMul(FMul(FSq(omega), MU_0), EPSILON_0),
                                   epsilon_r)),
                         FDivNp(FMul(omega, MU_0), rho)))}}))
            : rho \in {resistividade_equivalente_uniforme(p, frequencia)},
              Z_primeira \in
                {CMul(fator, CReal(Ln(FDivNp(D_ij_prime, D_ij))))}}))
            : D_ij \in
                {NpSqrt(FAdd(FSq(FSub(x_duto, x_cabo)), FSq(dy_ij)))},
              D_ij_prime \in
                {NpSqrt(FAdd(FSq(FSub(x_duto, x_cabo)), FSq(dy_ij_prime)))}})

\* LinhaTransmissao.calcular_impedancia_mutua_carson_fechada
calcular_impedancia_mutua_carson_fechada(cabo, d, p, omega) ==
    MutuaLocais(cabo, d, p, omega).Z

---------------------------------------------------------------------------
(* AnaliseInterferencia (emi_system.py 220-319) *)

\* The loop of calcular_tensao_induzida_total over the first n conductors:
\* tensao_total += Z_mutua * cabo.corrente * comprimento_exposicao
RECURSIVE TensaoAcumulada(_, _, _, _, _, _)
TensaoAcumulada(cs, n, d, p, omega, comprimento) ==
    IF n = 0 THEN CReal(FInt(0))
    ELSE CAdd(TensaoAcumulada(cs, n - 1, d, p, omega, comprimento),
              CMul(CMul(calcular_impedancia_mutua_carson_fechada(cs[n], d, p, omega),
                        cs[n].corrente),
                   CReal(comprimento)))

\* The loop with = for +=: the contribution of the last conductor only
TensaoSemAcumular(cs, d, p, omega, comprimento) ==
    IF Len(cs) = 0 THEN CReal(FInt(0))
    ELSE CMul(CMul(calcular_impedancia_mutua_carson_fechada(cs[Len(cs)], d, p, omega),
                   cs[Len(cs)].corrente),
              CReal(comprimento))

\* AnaliseInterferencia.calcular_tensao_induzida_total
calcular_tensao_induzida_total(cs, d, p, omega, comprimento) ==
    TensaoAcumulada(cs, Len(cs), d, p, omega, comprimento)

\* limites_revestimento["polietileno_extrudado"], in kV
LIMITE_POLIETILENO == FInt(5)

\* avaliar_seguranca_revestimento with < for <=
SegurancaRevestimentoEstrita(tensao_induzida, numpy) ==
    Valor({(LET tensao_kv == FDivPy(magnitude_tensao, FInt(1000))
                fator_seguranca ==
                    IF numpy THEN FDivNp(LIMITE_POLIETILENO, tensao_kv)
                    ELSE FDivPy(LIMITE_POLIETILENO, tensao_kv)
            IN  IF fator_seguranca.k = "raise" THEN fator_seguranca
                ELSE [tensao_kv |-> tensao_kv,
                      limite_kv |-> LIMITE_POLIETILENO,
                      seguro |-> FLt(tensao_kv, LIMITE_POLIETILENO),
                      fator_seguranca |-> fator_seguranca])
           : magnitude_tensao \in {CAbs(tensao_induzida)}})

\* AnaliseInterferencia.avaliar_seguranca_revestimento.  abs() of a numpy
\* complex (numpy) is a numpy float and limite / 0.0 an infinity; abs() of a
\* Python complex is a Python float and limite / 0.0 raises.
avaliar_seguranca_revestimento(tensao_induzida, numpy) ==
    Valor({(LET tensao_kv == FDivPy(magnitude_tensao, FInt(1000))
                fator_seguranca ==
                    IF numpy THEN FDivNp(LIMITE_POLIETILENO, tensao_kv)
                    ELSE FDivPy(LIMITE_POLIETILENO, tensao_kv)
            IN  IF fator_seguranca.k = "raise" THEN fator_seguranca
                ELSE [tensao_kv |-> tensao_kv,
                      limite_kv |-> LIMITE_POLIETILENO,
                      seguro |-> FLe(tensao_kv, LIMITE_POLIETILENO),
                      fator_seguranca |-> fator_seguranca])
           : magnitude_tensao \in {CAbs(tensao_induzida)}})

\* The safety block of teste_sistema (teste_basico.py 135-147) on the Python
\* complex tensao_total: the limit, the verdict and the percentage printed,
\* the margin left when safe and the excess otherwise
avaliacao_seguranca_teste(tensao_total) ==
    Valor({(
        [tensao_kv |-> magnitude_kv,
         limite_kv |-> LIMITE_POLIETILENO,
         seguro |-> FLe(magnitude_kv, LIMITE_POLIETILENO),
         percentual |->
            IF FLe(magnitude_kv, LIMITE_POLIETILENO)
            THEN FMul(FDivPy(FSub(LIMITE_POLIETILENO, magnitude_kv),
                             LIMITE_POLIETILENO), FInt(100))
            ELSE FMul(FDivPy(FSub(magnitude_kv, LIMITE_POLIETILENO),
                             LIMITE_POLIETILENO), FInt(100))])
           : magnitude_kv \in {FDivPy(CAbs(tensao_total), FInt(1000))}})

\* The thresholds 20e-3 and 100e-3 A/m2 of avaliar_risco_corrosao_ac
LIMIAR_RISCO_BAIXO == Num(20, 1000)

LIMIAR_RISCO_MODERADO == Num(100, 1000)

\* avaliar_risco_corrosao_ac with <= for <
RiscoComLimiteInclusivo(densidade_corrente) ==
    IF FLe(densidade_corrente, LIMIAR_RISCO_BAIXO) THEN "Baixo"
    ELSE IF FLe(densidade_corrente, LIMIAR_RISCO_MODERADO) THEN "Moderado"
    ELSE "Muito Alto"

\* AnaliseInterferencia.avaliar_risco_corrosao_ac
avaliar_risco_corrosao_ac(densidade_corrente) ==
    IF FLt(densidade_corrente, LIMIAR_RISCO_BAIXO) THEN "Baixo"
    ELSE IF FLt(densidade_corrente, LIMIAR_RISCO_MODERADO) THEN "Moderado"
    ELSE "Muito Alto"

\* The default raio_defeito of calcular_densidade_corrente_ac
RAIO_DEFEITO == Num(1, 1000)

\* AnaliseInterferencia.calcular_densidade_corrente_ac: the soil resistivity
\* is a numpy float, so that a zero denominator gives inf or NaN
calcular_densidade_corrente_ac(tensao_induzida, d, p) ==
    Valor({(
        FDivNp(magnitude_tensao,
               FMul(rho_solo, FAdd(FMul(Num(3927, 10000), RAIO_DEFEITO),
                                   d.espessura_revestimento))))
           : magnitude_tensao \in {CAbs(tensao_induzida)},
             rho_solo \in {resistividade_equivalente_uniforme(p, FInt(FREQ_PADRAO))}})

\* AnaliseInterferencia.gerar_relatorio_analise: the dict returned, or the
\* exception of avaliar_seguranca_revestimento.  The induced voltage of a
\* line without conductors is the Python complex 0j, any other is a numpy
\* complex.
gerar_relatorio_analise(cs, d, p, omega, comprimento_exposicao) ==
    Valor({(
    Valor({(
    Valor({(
        IF "k" \in DOMAIN seguranca_revestimento THEN seguranca_revestimento
        ELSE
        [tensao_induzida |->
            [magnitude_v |-> CAbs(tensao_induzida),
             fase_graus |-> Degrees(Angle(tensao_induzida)),
             complexo |-> tensao_induzida],
         parametros_duto |->
            [impedancia_propria_ohm_m |-> Z_proprio,
             admitancia_siemens_m |-> Y_shunt,
             impedancia_caracteristica_ohm |-> Z_carac,
             constante_propagacao_m_1 |-> gamma,
             comprimento_caracteristico_m |->
                IF FLt(FInt(0), gamma.re) THEN FDivNp(FInt(1), gamma.re)
                ELSE Inf(1)],
         avaliacao_seguranca |->
            [revestimento |-> seguranca_revestimento,
             densidade_corrente_ma_m2 |-> FMul(densidade_corrente, FInt(1000)),
             risco_corrosao |-> avaliar_risco_corrosao_ac(densidade_corrente)],
         solo |->
            [resistividade_equivalente_ohm_m |->
                resistividade_equivalente_uniforme(p, FInt(FREQ_PADRAO))]])
           : gamma \in {calcular_constante_propagacao(d, p, omega)}})
           ) : seguranca_revestimento \in
                 {avaliar_seguranca_revestimento(tensao_induzida, Len(cs) > 0)},
               densidade_corrente \in
                 {calcular_densidade_corrente_ac(tensao_induzida, d, p)},
               Z_proprio \in {calcular_impedancia_propria(d, p, omega)},
               Y_shunt \in {calcular_admitancia_shunt(d, omega)},
               Z_carac \in {calcular_impedancia_caracteristica(d, p, omega)}})
           ) : tensao_induzida \in
                 {calcular_tensao_induzida_total(cs, d, p, omega,
                                                 comprimento_exposicao)}})

---------------------------------------------------------------------------
(* Values of the objects outside the operation a specification applies *)

SoloPadrao == ParametrosSolo(FInt(1), FInt(4), FInt(1), FInt(10))

\* No object constructed yet
Nenhum == [nenhum |-> TRUE]

\* emi_system.OMEGA at import: 2 * np.pi * 60
OMEGA_INICIAL == OmegaDe(FInt(FREQ_PADRAO))

\* No sweep of VisualizadorEMI in progress
Parada == [pc |-> "parada", i |-> 0, j |-> 0, original |-> Nenhum]

---------------------------------------------------------------------------
(* SpecSolo: resistividade_equivalente_uniforme on every soil of           *)
(* RhoValores x RhoValores x EspessuraValores at every frequency of        *)
(* FreqValores.  ParametrosSolo accepts any float, so the non-physical     *)
(* resistivities are inputs as well.                                       *)

RhoValores == {FInt(-4), FInt(-1), FInt(0), Num(1, 4), FInt(1), FInt(4), FInt(9)}

EspessuraValores == {Num(1, 2), FInt(1), FInt(2)}

FreqValores == {FInt(0), FInt(1), FInt(4)}

InitSolo ==
    /\ solo \in {ParametrosSolo(r1, r2, h, FInt(10)) :
                    r1 \in RhoValores, r2 \in RhoValores, h \in EspessuraValores}
    /\ arg \in FreqValores
    /\ op = "init"
    /\ varredura = Parada
    /\ primeira = Nenhum
    /\ ret = FInt(0)
    /\ OMEGA = OMEGA_INICIAL
    /\ duto = Nenhum
    /\ cabos = <<>>

\* solo.resistividade_equivalente_uniforme(arg) of emi_system.py
ChamarResistividade ==
    /\ op = "init"
    /\ op' = "resistividade"
    /\ ret' = resistividade_equivalente_uniforme(solo, arg)
    /\ UNCHANGED <<solo, OMEGA, duto, cabos, arg, varredura, primeira>>

\* solo.resistividade_equivalente_uniforme(arg) of teste_basico.py
ChamarResistividadeTeste ==
    /\ op = "init"
    /\ op' = "resistividade_teste"
    /\ ret' = resistividade_equivalente_uniforme_teste(solo, arg)
    /\ UNCHANGED <<solo, OMEGA, duto, cabos, arg, varredura, primeira>>

NextSolo == ChamarResistividade \/ ChamarResistividadeTeste

SpecSolo == InitSolo /\ [][NextSolo]_vars

Positivo(a) == a.k = "num" /\ a.n > 0

\* C8: with equal layer resistivities rho1 = rho2 > 0 the equivalent
\* resistivity returned is rho1 itself, for every thickness and frequency.
C8_CamadasIguais ==
    (/\ op = "resistividade"
     /\ solo.resistividade_camada1 = solo.resistividade_camada2
     /\ Positivo(solo.resistividade_camada1))
    => ret = solo.resistividade_camada1

C8_Witness ==
    /\ op = "resistividade"
    /\ solo.resistividade_camada1 = FInt(4)
    /\ solo.resistividade_camada2 = FInt(4)
    /\ arg = FInt(4)
    /\ ret = FInt(4)

\* C9: a layer resistivity that is zero or negative makes
\* resistividade_equivalente_uniforme fail with an error; it returns no
\* value, NaN included.
C9_ResistividadeInvalidaFalha ==
    (/\ op = "resistividade"
     /\ \/ ~Positivo(solo.resistividade_camada1)
        \/ ~Positivo(solo.resistividade_camada2))
    => ret.k = "raise"

---------------------------------------------------------------------------
(* SpecSB: the two copies of the Struve-Bessel approximation on the same   *)
(* arguments: a grid of small complex u around 0 and the reals n/20, which *)
(* cover both sides of |u| = 0.1.  All have an exact modulus.              *)

MaxU == 40

UValores ==
    {C(Num(a, q), Num(b, q)) : a \in -1..1, b \in -1..1, q \in {12, 16, 20}}
    \cup {C(Num(n, 20), FInt(0)) : n \in -MaxU..MaxU}
    \cup {C(Num(3, 50), Num(4, 50)), C(Num(3, 5), Num(4, 5))}

InitSB ==
    /\ arg \in UValores
    /\ op = "init"
    /\ varredura = Parada
    /\ primeira = Nenhum
    /\ ret = CReal(FInt(0))
    /\ solo = SoloPadrao
    /\ OMEGA = OMEGA_INICIAL
    /\ duto = Nenhum
    /\ cabos = <<>>

\* struve_bessel_approx(arg), as calcular_impedancia_mutua_carson_fechada
\* evaluates it for u1 and u2
AvaliarStruveBessel ==
    /\ op = "init"
    /\ op' = "sb_mutua"
    /\ ret' = struve_bessel_approx(arg)
    /\ UNCHANGED <<solo, OMEGA, duto, cabos, arg, varredura, primeira>>

\* termo_integral for u = arg, as calcular_impedancia_propria evaluates it
AvaliarTermoIntegral ==
    /\ op = "init"
    /\ op' = "sb_propria"
    /\ ret' = TermoIntegral(arg)
    /\ UNCHANGED <<solo, OMEGA, duto, cabos, arg, varredura, primeira>>

NextSB == AvaliarStruveBessel \/ AvaliarTermoIntegral

SpecSB == InitSB /\ [][NextSB]_vars

\* C7: the Struve-Bessel term of calcular_impedancia_propria is the value
\* of struve_bessel_approx at the same u, for every complex u.
C7_MesmaAproximacao ==
    op = "sb_propria" => ret = struve_bessel_approx(arg)

---------------------------------------------------------------------------
(* SpecDuto: construction of a Duto from every combination of diameter,    *)
(* wall thickness, depth and material tag below, then the quantities       *)
(* derived from it.                                                        *)

DiametroValores == {Num(1, 2), FInt(1), FInt(2), FInt(4)}

ParedeValores == {Num(1, 8), Num(1, 4), Num(1, 2), FInt(1), FInt(2)}

ProfundidadeValores == {FInt(-1), FInt(-2)}

MaterialValores == {"aco", "aluminio", "cobre"}

InitDuto ==
    /\ arg \in [diametro : DiametroValores, espessura_parede : ParedeValores,
                 z : ProfundidadeValores, material : MaterialValores]
    /\ op = "init"
    /\ varredura = Parada
    /\ primeira = Nenhum
    /\ ret = FInt(0)
    /\ duto = Nenhum
    /\ solo = SoloPadrao
    /\ OMEGA = OMEGA_INICIAL
    /\ cabos = <<>>

\* Duto(Coordenadas(0, 0, z), diametro, espessura_parede, 1/4, material)
ConstruirDuto ==
    /\ op = "init"
    /\ op' = "construido"
    /\ duto' = Duto(Coordenadas(FInt(0), FInt(0), arg.z), arg.diametro,
                    arg.espessura_parede, Num(1, 4), arg.material)
    /\ UNCHANGED <<solo, OMEGA, cabos, arg, ret, varredura, primeira>>

\* duto._calcular_rmg_tubular()
ChamarRmg ==
    /\ op = "construido"
    /\ op' = "rmg"
    /\ ret' = calcular_rmg_tubular(duto)
    /\ UNCHANGED <<solo, OMEGA, duto, cabos, arg, varredura, primeira>>

\* duto.calcular_impedancia_propria(solo)
ChamarImpedanciaPropria ==
    /\ op = "construido"
    /\ op' = "propria"
    /\ ret' = calcular_impedancia_propria(duto, solo, OMEGA)
    /\ UNCHANGED <<solo, OMEGA, duto, cabos, arg, varredura, primeira>>

NextDuto == ConstruirDuto \/ ChamarRmg \/ ChamarImpedanciaPropria

SpecDuto == InitDuto /\ [][NextDuto]_vars

\* The wall is at least as thick as the outer radius
ParedeDegenerada == FLe(FDivPy(arg.diametro, FInt(2)), arg.espessura_parede)

\* C10: a pipe whose wall thickness is at least its outer radius is rejected
\* at construction: no Duto with inner radius <= 0 exists, and neither the
\* geometric mean radius nor the self-impedance is ever NaN.
C10_GeometriaDegeneradaRejeitada ==
    /\ op \in {"construido", "rmg", "propria"} => Positivo(duto.raio_interno)
    /\ op = "rmg" => ~IsNaN(ret)
    /\ op = "propria" => ~CIsNaN(ret)

---------------------------------------------------------------------------
(* SpecMutua: the mutual impedance between one aerial conductor (height    *)
(* y > 0) and a buried pipe (depth coordinate z < 0) at every position     *)
(* below.                                                                  *)

XCaboValores == {FInt(-3), FInt(0), FInt(3)}

YCaboValores == {FInt(1), FInt(2), FInt(5)}

XDutoValores == {FInt(0), FInt(1), FInt(4)}

ZDutoValores == {FInt(-2), FInt(-1), Num(-1, 2)}

DutoEm(x, z) == Duto(Coordenadas(x, FInt(0), z), FInt(1), Num(1, 8), Num(1, 4), "aco")

CaboEm(x, y, corrente) == Cabo(Coordenadas(x, y, FInt(0)), corrente, Num(1, 8), "fase")

InitMutua ==
    /\ cabos \in {<<CaboEm(x, y, CReal(FInt(1)))>> :
                    x \in XCaboValores, y \in YCaboValores}
    /\ duto \in {DutoEm(x, z) : x \in XDutoValores, z \in ZDutoValores}
    /\ op = "init"
    /\ varredura = Parada
    /\ primeira = Nenhum
    /\ arg = FInt(0)
    /\ ret = FInt(0)
    /\ solo = SoloPadrao
    /\ OMEGA = OMEGA_INICIAL

\* lt.calcular_impedancia_mutua_carson_fechada(cabos[1], duto); ret holds
\* the locals of the call
ChamarImpedanciaMutua ==
    /\ op = "init"
    /\ op' = "mutua"
    /\ ret' = MutuaLocais(cabos[1], duto, solo, OMEGA)
    /\ UNCHANGED <<solo, OMEGA, duto, cabos, arg, varredura, primeira>>

NextMutua == ChamarImpedanciaMutua

SpecMutua == InitMutua /\ [][NextMutua]_vars

\* C4: for a conductor at height y > 0 and a pipe at depth z < 0, D_ij' is
\* the distance to the mirror image of the pipe: the vertical offsets of
\* D_ij and D_ij' differ by 2|z|, D_ij' differs from D_ij and the term
\* ln(D_ij'/D_ij) of the perfectly conducting earth is not zero.
C4_ImagemEspelhada ==
    (/\ op = "mutua"
     /\ Positivo(cabos[1].coordenadas.y)
     /\ FLt(duto.coordenadas.z, FInt(0)))
    => /\ FAbs(FSub(ret.dy_ij, ret.dy_ij_prime))
            = FMul(FInt(2), FAbs(duto.coordenadas.z))
       /\ ret.D_ij # ret.D_ij_prime
       /\ ret.Z_primeira # CReal(FInt(0))

---------------------------------------------------------------------------
(* SpecTensao: the total induced voltage of a line of one to three         *)
(* conductors, and of the same line with every current multiplied by the   *)
(* real factor arg.k.                                                      *)

PosicoesCabos == <<Coordenadas(FInt(-3), FInt(5), FInt(0)),
                   Coordenadas(FInt(0), FInt(7), FInt(0)),
                   Coordenadas(FInt(3), FInt(5), FInt(0))>>

CorrenteValores == {CReal(FInt(0)), CReal(FInt(100)), C(FInt(-50), Num(866, 10))}

FatorValores == {FInt(-1), FInt(0), Num(1, 2), FInt(2), FInt(3)}

ComprimentoValores == {FInt(1), FInt(1000)}

LinhaCom(correntes) ==
    [i \in 1..Len(correntes) |->
        Cabo(PosicoesCabos[i], correntes[i], Num(1, 80), "fase")]

\* every current of the line multiplied by the float k
Escalar(cs, k) ==
    [i \in 1..Len(cs) |-> [cs[i] EXCEPT !.corrente = CScale(k, cs[i].corrente)]]

InitTensao ==
    /\ cabos \in {LinhaCom(cs) :
                    cs \in UNION {[1..n -> CorrenteValores] :
                                    n \in 1..Len(PosicoesCabos)}}
    /\ arg \in [k : FatorValores, comprimento : ComprimentoValores]
    /\ duto = DutoEm(FInt(4), FInt(-2))
    /\ solo = SoloPadrao
    /\ OMEGA = OMEGA_INICIAL
    /\ op = "init"
    /\ varredura = Parada
    /\ primeira = Nenhum
    /\ ret = CReal(FInt(0))

\* analise.calcular_tensao_induzida_total(comprimento)
ChamarTensaoTotal ==
    /\ op = "init"
    /\ op' = "tensao"
    /\ ret' = calcular_tensao_induzida_total(cabos, duto, solo, OMEGA, arg.comprimento)
    /\ UNCHANGED <<solo, OMEGA, duto, cabos, arg, varredura, primeira>>

\* The same call on the analysis of the line with the currents scaled
ChamarTensaoEscalada ==
    /\ op = "init"
    /\ op' = "tensao_k"
    /\ ret' = Valor({(
                  calcular_tensao_induzida_total(cs, duto, solo, OMEGA, arg.comprimento))
                      : cs \in {Escalar(cabos, arg.k)}})
    /\ UNCHANGED <<solo, OMEGA, duto, cabos, arg, varredura, primeira>>

NextTensao == ChamarTensaoTotal \/ ChamarTensaoEscalada

SpecTensao == InitTensao /\ [][NextTensao]_vars

\* Z_mutua(cabos[i], duto) * corrente_i * comprimento of the state
Contribuicao(i) ==
    CMul(CMul(calcular_impedancia_mutua_carson_fechada(cabos[i], duto, solo, OMEGA),
              cabos[i].corrente),
         CReal(arg.comprimento))

\* the sum of the contributions of the conductors 1..n other than j, in
\* the order of the list
RECURSIVE SomaSem(_, _)
SomaSem(n, j) ==
    IF n = 0 THEN CReal(FInt(0))
    ELSE IF n = j THEN SomaSem(n - 1, j)
    ELSE CAdd(SomaSem(n - 1, j), Contribuicao(n))

SomaContribuicoes == SomaSem(Len(cabos), 0)

\* the total is the sum of the contributions, and a conductor of zero
\* current contributes nothing
SomaDasContribuicoes ==
    op = "tensao" =>
        /\ ret = SomaContribuicoes
        /\ \A j \in 1..Len(cabos) :
              cabos[j].corrente = CReal(FInt(0)) => ret = SomaSem(Len(cabos), j)

\* C1 as stated: the total is the sum over the conductors of Z_mutua *
\* current * length, a conductor of zero current contributes nothing, and
\* the total of the line with every current multiplied by k is exactly k
\* times the total.
C1_LinearidadeExata ==
    /\ SomaDasContribuicoes
    /\ op = "tensao_k" => ret = CScale(arg.k, SomaContribuicoes)

\* |Re u| + |Im u|
Norma1(u) == FAdd(FAbs(u.re), FAbs(u.im))

RECURSIVE SomaDasNormas(_)
SomaDasNormas(n) ==
    IF n = 0 THEN FInt(0) ELSE FAdd(SomaDasNormas(n - 1), Norma1(Contribuicao(n)))

\* The rounding allowed to the scaled total, in units of 1/PRECISAO of
\* |k| times the sum of the magnitudes of the contributions
ULPS_TOLERANCIA == 8

\* a float that is 0 or a power of two, of either sign: multiplying by it
\* rounds nothing
PotenciaDeDois(k) == k.k = "num" /\ Abs(k.n) <= 1

\* C1, amended: the total is the sum over the conductors of Z_mutua *
\* current * length and a conductor of zero current contributes nothing;
\* the total of the line with every current multiplied by k is k times the
\* total exactly when k is 0 or a power of two, and otherwise up to the
\* rounding of the floating-point operations.
C1_LinearidadeArredondada ==
    /\ SomaDasContribuicoes
    /\ op = "tensao_k" =>
          LET escalado == CScale(arg.k, SomaContribuicoes)
          IN  /\ PotenciaDeDois(arg.k) => ret = escalado
              /\ FLe(FMul(Norma1(CSub(ret, escalado)), FInt(PRECISAO)),
                     FMul(FMul(FInt(ULPS_TOLERANCIA), FAbs(arg.k)),
                          SomaDasNormas(Len(cabos))))

\* three conductors, one of them without current, scaled by 3, and a total
\* that is not zero
C1_Witness ==
    /\ op = "tensao_k"
    /\ arg.k = FInt(3)
    /\ Len(cabos) = 3
    /\ cabos[2].corrente = CReal(FInt(0))
    /\ cabos[1].corrente # CReal(FInt(0))
    /\ ret # CReal(FInt(0))
    /\ ret # CScale(arg.k, SomaContribuicoes)

---------------------------------------------------------------------------
(* SpecRisco: the classification of an AC current density.  The densities  *)
(* are the multiples of 1 mA/m2 up to MaxDensidade (arg.mili is the        *)
(* multiple), the floats next to the two thresholds (arg.mili = -1) and    *)
(* the infinity.                                                           *)

MaxDensidade == 120

\* The float next to the float a > 0, above (s = 1) or below (s = -1)
Vizinho(a, s) ==
    Valor({(Arredondar(1, a.n * 2^t + s, a.e - t, FALSE))
           : t \in {Bits(PRECISAO) - 1 - Bits(a.n)}})

DensidadeValores ==
    {[densidade |-> Num(n, 1000), mili |-> n] : n \in 0..MaxDensidade}
    \cup {[densidade |-> Vizinho(t, s), mili |-> -1] :
            t \in {LIMIAR_RISCO_BAIXO, LIMIAR_RISCO_MODERADO}, s \in {-1, 1}}
    \cup {[densidade |-> Inf(1), mili |-> -1]}

InitRisco ==
    /\ arg \in DensidadeValores
    /\ op = "init"
    /\ varredura = Parada
    /\ primeira = Nenhum
    /\ ret = ""
    /\ solo = SoloPadrao
    /\ OMEGA = OMEGA_INICIAL
    /\ duto = Nenhum
    /\ cabos = <<>>

\* analise.avaliar_risco_corrosao_ac(arg.densidade)
AvaliarRisco ==
    /\ op = "init"
    /\ op' = "risco"
    /\ ret' = avaliar_risco_corrosao_ac(arg.densidade)
    /\ UNCHANGED <<solo, OMEGA, duto, cabos, arg, varredura, primeira>>

NextRisco == AvaliarRisco

SpecRisco == InitRisco /\ [][NextRisco]_vars

\* C2: the density d gets exactly one of three labels: the lowest iff
\* d < 0.020, the middle one iff 0.020 <= d < 0.100, the highest iff
\* d >= 0.100; d = 0.020 is in the middle class and d = 0.100 in the highest.
C2_ClassesDeRisco ==
    op = "risco" =>
        /\ ret \in {"Baixo", "Moderado", "Muito Alto"}
        /\ ret = "Baixo" <=> FLt(arg.densidade, LIMIAR_RISCO_BAIXO)
        /\ ret = "Moderado" <=>
              /\ FLe(LIMIAR_RISCO_BAIXO, arg.densidade)
              /\ FLt(arg.densidade, LIMIAR_RISCO_MODERADO)
        /\ ret = "Muito Alto" <=> FLe(LIMIAR_RISCO_MODERADO, arg.densidade)
        /\ arg.mili >= 0 =>
              /\ ret = "Baixo" <=> arg.mili < 20
              /\ ret = "Moderado" <=> (20 <= arg.mili /\ arg.mili < 100)
              /\ ret = "Muito Alto" <=> arg.mili >= 100
        /\ arg.densidade = Vizinho(LIMIAR_RISCO_BAIXO, -1) => ret = "Baixo"
        /\ arg.densidade = Vizinho(LIMIAR_RISCO_BAIXO, 1) => ret = "Moderado"
        /\ arg.densidade = Vizinho(LIMIAR_RISCO_MODERADO, -1) => ret = "Moderado"
        /\ arg.densidade = Vizinho(LIMIAR_RISCO_MODERADO, 1) => ret = "Muito Alto"

\* the density 0.020 A/m2 exactly, classified
C2_Witness == op = "risco" /\ arg.mili = 20 /\ ret = "Moderado"

---------------------------------------------------------------------------
(* SpecRevestimento: the coating check of an induced voltage, a Python     *)
(* complex or a numpy complex, for two pipelines, by the engine and by     *)
(* the script teste_basico.py.                                             *)

TensaoValores ==
    {C(FInt(v[1]), FInt(v[2])) :
        v \in {<<0, 0>>, <<1000, 0>>, <<4999, 0>>, <<5000, 0>>, <<5001, 0>>,
               <<-5000, 0>>, <<0, 5000>>, <<0, -5001>>, <<3000, 4000>>,
               <<3000, -4000>>, <<3001, 4000>>, <<2999, 4000>>, <<6000, 8000>>,
               <<20000, 0>>}}

DutoValores ==
    {Duto(Coordenadas(FInt(0), FInt(0), FInt(-2)), FInt(1), Num(1, 8), Num(1, 4), "aco"),
     Duto(Coordenadas(FInt(4), FInt(0), FInt(-1)), Num(1, 2), Num(1, 8), Num(1, 8),
          "aluminio")}

InitRevestimento ==
    /\ arg \in [tensao : TensaoValores, numpy : BOOLEAN]
    /\ duto \in DutoValores
    /\ op = "init"
    /\ varredura = Parada
    /\ primeira = Nenhum
    /\ ret = FInt(0)
    /\ solo = SoloPadrao
    /\ OMEGA = OMEGA_INICIAL
    /\ cabos = <<>>

\* analise.avaliar_seguranca_revestimento(arg.tensao): the dict returned,
\* or the exception raised
AvaliarRevestimento ==
    /\ op = "init"
    /\ ret' = avaliar_seguranca_revestimento(arg.tensao, arg.numpy)
    /\ op' = IF "k" \in DOMAIN ret' THEN "revestimento_erro" ELSE "revestimento"
    /\ UNCHANGED <<solo, OMEGA, duto, cabos, arg, varredura, primeira>>

\* The safety block of teste_sistema on the Python complex arg.tensao
AvaliarRevestimentoTeste ==
    /\ op = "init"
    /\ ~arg.numpy
    /\ op' = "revestimento_teste"
    /\ ret' = avaliacao_seguranca_teste(arg.tensao)
    /\ UNCHANGED <<solo, OMEGA, duto, cabos, arg, varredura, primeira>>

NextRevestimento == AvaliarRevestimento \/ AvaliarRevestimentoTeste

SpecRevestimento == InitRevestimento /\ [][NextRevestimento]_vars

\* |V| / 1000 of the voltage of the state
TensaoKv == FDivPy(CAbs(arg.tensao), FInt(1000))

\* C3: the assessment returned uses the limit 5.0 kV whatever the pipeline
\* is, reports the coating safe exactly when |V|/1000 <= 5.0, so that
\* exactly 5.0 kV is safe, and its safety margin is limit / (|V|/1000).
C3_LimitePolietileno ==
    /\ op \in {"revestimento", "revestimento_teste"} =>
        /\ ret.limite_kv = FInt(5)
        /\ ret.tensao_kv = TensaoKv
        /\ ret.seguro <=> FLe(TensaoKv, FInt(5))
        /\ TensaoKv = FInt(5) => ret.seguro
    /\ op = "revestimento" => ret.fator_seguranca = FDivNp(FInt(5), TensaoKv)

\* a voltage of magnitude 5.0 kV exactly, off the real axis, assessed safe
\* with margin 1
C3_Witness ==
    /\ op = "revestimento"
    /\ arg.tensao = C(FInt(3000), FInt(-4000))
    /\ ret.tensao_kv = FInt(5)
    /\ ret.seguro
    /\ ret.fator_seguranca = FInt(1)

---------------------------------------------------------------------------
(* Spec: one analysis (a line, a soil, a pipe) used by a caller of the      *)
(* engine and by a VisualizadorEMI on the same objects.  A sweep of the     *)
(* visualizer is a loop; one iteration is one step, and the calls of the    *)
(* caller may come between two iterations.  ret is the value returned by    *)
(* the last call of the caller and primeira the first call of               *)
(* calcular_tensao_induzida_total.  The voltages a sweep collects go to the *)
(* figure only.                                                             *)

\* The soil of exemplo_uso
SoloExemplo == ParametrosSolo(FInt(100), FInt(1000), FInt(2), FInt(10))

\* The exposure length of every call of the repository, 1 km
COMPRIMENTO_EXPOSICAO == FInt(1000)

\* distancias_range, frequencias, rho1_range and rho2_range: the ends of the
\* default ranges
Distancias == <<FInt(5), FInt(100)>>

Frequencias == <<FInt(1), FInt(1000)>>

Rho1Range == <<FInt(10), FInt(1000)>>

Rho2Range == <<FInt(100), FInt(10000)>>

Init ==
    /\ solo = SoloExemplo
    /\ OMEGA = OMEGA_INICIAL
    /\ duto = DutoEm(FInt(4), FInt(-2))
    /\ cabos \in {<<>>, LinhaCom(<<CReal(FInt(100)), C(FInt(-50), Num(866, 10))>>)}
    /\ op = "init"
    /\ arg = COMPRIMENTO_EXPOSICAO
    /\ ret = Nenhum
    /\ varredura = Parada
    /\ primeira = Nenhum

\* analise.calcular_tensao_induzida_total(1000.0)
ChamarTensao ==
    /\ op' = "tensao"
    /\ arg' = COMPRIMENTO_EXPOSICAO
    /\ ret' = calcular_tensao_induzida_total(cabos, duto, solo, OMEGA,
                                             COMPRIMENTO_EXPOSICAO)
    /\ primeira' = IF primeira = Nenhum
                   THEN [comprimento |-> arg', valor |-> ret']
                   ELSE primeira
    /\ UNCHANGED <<solo, OMEGA, duto, cabos, varredura>>

\* The report computed after moving the pipe to the origin
GerarRelatorioMovendoDuto ==
    /\ op' = "relatorio"
    /\ arg' = COMPRIMENTO_EXPOSICAO
    /\ duto' = [duto EXCEPT !.coordenadas.x = FInt(0)]
    /\ ret' = gerar_relatorio_analise(cabos, duto', solo, OMEGA,
                                      COMPRIMENTO_EXPOSICAO)
    /\ UNCHANGED <<solo, OMEGA, cabos, varredura, primeira>>

\* analise.gerar_relatorio_analise(comprimento_exposicao=1000.0)
GerarRelatorio ==
    /\ op' = "relatorio"
    /\ arg' = COMPRIMENTO_EXPOSICAO
    /\ ret' = gerar_relatorio_analise(cabos, duto, solo, OMEGA,
                                      COMPRIMENTO_EXPOSICAO)
    /\ UNCHANGED <<solo, OMEGA, duto, cabos, varredura, primeira>>

\* plotar_perfil_tensao_vs_distancia up to the loop: coord_original
IniciarPerfilDistancia ==
    /\ varredura.pc = "parada"
    /\ varredura' = [pc |-> "distancia", i |-> 0, j |-> 0,
                     original |-> duto.coordenadas]
    /\ op' = "perfil_distancia"
    /\ ret' = Nenhum
    /\ UNCHANGED <<solo, OMEGA, duto, cabos, arg, primeira>>

\* One iteration: the pipe moved to x = dist
PassoPerfilDistancia ==
    /\ varredura.pc = "distancia"
    /\ varredura.i < Len(Distancias)
    /\ varredura' = [varredura EXCEPT !.i = @ + 1]
    /\ duto' = [duto EXCEPT !.coordenadas =
                    Coordenadas(Distancias[varredura.i + 1],
                                varredura.original.y, varredura.original.z)]
    /\ op' = "perfil_distancia"
    /\ ret' = Nenhum
    /\ UNCHANGED <<solo, OMEGA, cabos, arg, primeira>>

\* After the loop: self.duto.coordenadas = coord_original
RestaurarCoordenadas ==
    /\ varredura.pc = "distancia"
    /\ varredura.i = Len(Distancias)
    /\ duto' = [duto EXCEPT !.coordenadas = varredura.original]
    /\ varredura' = Parada
    /\ op' = "perfil_distancia"
    /\ ret' = Nenhum
    /\ UNCHANGED <<solo, OMEGA, cabos, arg, primeira>>

\* plotar_espectro_frequencia up to the loop: omega_original
IniciarEspectro ==
    /\ varredura.pc = "parada"
    /\ varredura' = [pc |-> "frequencia", i |-> 0, j |-> 0, original |-> OMEGA]
    /\ op' = "espectro"
    /\ ret' = Nenhum
    /\ UNCHANGED <<solo, OMEGA, duto, cabos, arg, primeira>>

\* One iteration: emi_system.OMEGA = 2 * np.pi * freq
PassoEspectro ==
    /\ varredura.pc = "frequencia"
    /\ varredura.i < Len(Frequencias)
    /\ varredura' = [varredura EXCEPT !.i = @ + 1]
    /\ OMEGA' = OmegaDe(Frequencias[varredura.i + 1])
    /\ op' = "espectro"
    /\ ret' = Nenhum
    /\ UNCHANGED <<solo, duto, cabos, arg, primeira>>

\* After the loop: emi_system.OMEGA = omega_original
RestaurarOmega ==
    /\ varredura.pc = "frequencia"
    /\ varredura.i = Len(Frequencias)
    /\ OMEGA' = varredura.original
    /\ varredura' = Parada
    /\ op' = "espectro"
    /\ ret' = Nenhum
    /\ UNCHANGED <<solo, duto, cabos, arg, primeira>>

\* plotar_analise_parametros_solo up to the loops.  params_originais is the
\* ParametrosSolo object of the soil itself, not a copy of it.
IniciarAnaliseSolo ==
    /\ varredura.pc = "parada"
    /\ varredura' = [pc |-> "solo", i |-> 1, j |-> 0, original |-> Nenhum]
    /\ op' = "analise_solo"
    /\ ret' = Nenhum
    /\ UNCHANGED <<solo, OMEGA, duto, cabos, arg, primeira>>

\* One iteration of the inner loop: the two resistivities written into the
\* parameters of the soil
PassoAnaliseSolo ==
    /\ varredura.pc = "solo"
    /\ \/ /\ varredura.j < Len(Rho2Range)
          /\ varredura' = [varredura EXCEPT !.j = @ + 1]
       \/ /\ varredura.j = Len(Rho2Range)
          /\ varredura.i < Len(Rho1Range)
          /\ varredura' = [varredura EXCEPT !.i = @ + 1, !.j = 1]
    /\ solo' = [solo EXCEPT
                    !.resistividade_camada1 = Rho1Range[varredura'.i],
                    !.resistividade_camada2 = Rho2Range[varredura'.j]]
    /\ op' = "analise_solo"
    /\ ret' = Nenhum
    /\ UNCHANGED <<OMEGA, duto, cabos, arg, primeira>>

\* After the loops: self.lt.solo.parametros = params_originais, the object
\* the loops wrote into
RestaurarSolo ==
    /\ varredura.pc = "solo"
    /\ varredura.i = Len(Rho1Range)
    /\ varredura.j = Len(Rho2Range)
    /\ varredura' = Parada
    /\ op' = "analise_solo"
    /\ ret' = Nenhum
    /\ UNCHANGED <<solo, OMEGA, duto, cabos, arg, primeira>>

Next ==
    \/ ChamarTensao
    \/ GerarRelatorio
    \/ IniciarPerfilDistancia
    \/ PassoPerfilDistancia
    \/ RestaurarCoordenadas
    \/ IniciarEspectro
    \/ PassoEspectro
    \/ RestaurarOmega
    \/ IniciarAnaliseSolo
    \/ PassoAnaliseSolo
    \/ RestaurarSolo

Spec == Init /\ [][Next]_vars

\* C5: a report computation leaves the soil parameters, the conductor list
\* with every position and current, and the coordinates and geometry of the
\* pipe as they were, and a report computed right after a report is equal
\* to it.
C5_RelatorioSemEfeito ==
    [][op' = "relatorio" =>
          /\ solo' = solo
          /\ cabos' = cabos
          /\ duto' = duto
          /\ op = "relatorio" => ret' = ret]_vars

\* a report returned for a line with conductors while the soil holds values
\* a sweep wrote
C5_Witness ==
    /\ op = "relatorio"
    /\ "avaliacao_seguranca" \in DOMAIN ret
    /\ ret.tensao_induzida.magnitude_v # FInt(0)
    /\ solo # SoloExemplo

\* C6: two calls of calcular_tensao_induzida_total on the same analysis with
\* the same exposure length return the same value, whatever the steps of
\* the sweeps between them: every call returns what the first call returned.
C6_ChamadasDeterministicas ==
    (op = "tensao" /\ primeira # Nenhum /\ primeira.comprimento = arg)
    => ret = primeira.valor

\* The calls of gerar_relatorio_analise that have returned when the report
\* is returned or the exception leaves it, in the order of the code
EtapasDoRelatorio(cs, d, p, omega, comprimento_exposicao) ==
    Valor({(
        IF "k" \in DOMAIN avaliar_seguranca_revestimento(tensao_induzida,
                                                         Len(cs) > 0)
        THEN <<"calcular_tensao_induzida_total">>
        ELSE <<"calcular_tensao_induzida_total",
               "avaliar_seguranca_revestimento",
               "calcular_densidade_corrente_ac",
               "avaliar_risco_corrosao_ac">>
           ) : tensao_induzida \in
                 {calcular_tensao_induzida_total(cs, d, p, omega,
                                                 comprimento_exposicao)}})

\* C11: a report asked of a line without conductors raises before any step
\* of the derivation chain has run (no voltage sum, no safety evaluation),
\* and what it raises is a domain error, not the arithmetic error of a
\* division inside the chain.
C11_LinhaVaziaFalhaAntes ==
    (op = "relatorio" /\ cabos = <<>>)
    => /\ "k" \in DOMAIN ret
       /\ ret.k = "raise"
       /\ ret.n # ZeroDivisionError
       /\ EtapasDoRelatorio(cabos, duto, solo, OMEGA, arg) = <<>>

---------------------------------------------------------------------------
(* duto.py: the class duto, an earlier implementation of the pipeline.     *)
(* Its module reads MU_0, EPSILON_0 and w of physical_constants.py.  The   *)
(* constructor computes every electrical quantity once and keeps it in an  *)
(* attribute; the methods without argument read those attributes.          *)

\* physical_constants.EPSILON_0: 8.85e-12
EPSILON_0_constants == FMul(Num(885, 100), DezElevadoMenos(12))

\* physical_constants.w: 2*np.pi*60
w == OmegaDe(FInt(60))

\* duto.calcular_impdancia_propria, of the attributes of the object o: the
\* divisions by the diameter have a numpy float as numerator
calcular_impdancia_propria(o) ==
    Valor({(
        C(FAdd(a, FDivPy(FMul(MU_0, w), FInt(8))),
          FAdd(a, FMul(FDivPy(FMul(MU_0, w), FMul(FInt(2), PI)),
                       Ln(FDivNp(FMul(Num(37, 10),
                                      NpSqrt(FMul(FMul(o.resistividade,
                                                       FDivPy(FInt(1), w)),
                                                  FDivPy(FInt(1), MU_0)))),
                                 o.diametro)))))
           ) : a \in {FDivNp(NpSqrt(FMul(FMul(FMul(o.resistividade,
                                                   o.permeabilidade), MU_0), w)),
                             FMul(FMul(PI, o.diametro), NpSqrt(FInt(2))))}})

\* duto.calcular_adimetancia: divisions of Python floats
calcular_adimetancia(o) ==
    C(FDivPy(FMul(PI, o.diametro),
             FMul(o.permeabilidade_cobertura, o.espessura_cobertura)),
      FDivPy(FMul(FMul(FMul(FMul(w, EPSILON_0_constants), o.EPSILON), PI),
                  o.diametro),
             o.espessura_cobertura))

\* duto.calcular_impedancia_caracteristica (duto.py 69-70)
calcular_impedancia_caracteristica_py(o) ==
    CSqrt(CDivNp(o.impedancia_propria, o.adimitancia))

\* duto.calcular_constante_propagacao (duto.py 72-73)
calcular_constante_propagacao_py(o) ==
    CSqrt(CMul(o.impedancia_propria, o.adimitancia))

\* duto.calcular_comprimento_caracteristico: 1 over a numpy float
calcular_comprimento_caracteristico(o) ==
    FDivNp(FInt(1), o.constante_propagacao.re)

\* The exception of a complex number one of whose parts raised, or Nenhum
ExcecaoDe(u) ==
    IF u.re.k = "raise" THEN u.re
    ELSE IF u.im.k = "raise" THEN u.im
    ELSE Nenhum

\* duto.__init__(diametro, solo, espessura_cobertura, coordenadas): the
\* object, or the exception that leaves the constructor.  The argument solo
\* is not kept.
duto_init(diametro, espessura_cobertura, coordenadas) ==
    Valor({(
    Valor({(
    Valor({(
        IF ExcecaoDe(o2.adimitancia) # Nenhum THEN ExcecaoDe(o2.adimitancia)
        ELSE
        Valor({(
        Valor({(
            [o4 EXCEPT !.comprimento_caracteristico =
                           calcular_comprimento_caracteristico(o4)])
               : o4 \in {[o3 EXCEPT !.constante_propagacao =
                             calcular_constante_propagacao_py(o3)]}}))
               : o3 \in {[o2 EXCEPT !.impedancia_caracteristica =
                             calcular_impedancia_caracteristica_py(o2)]}}))
           : o2 \in {[o1 EXCEPT !.adimitancia = calcular_adimetancia(o1)]}}))
           : o1 \in {[o0 EXCEPT !.impedancia_propria =
                         calcular_impdancia_propria(o0)]}}))
           : o0 \in {[coordenadas |-> coordenadas,
                      resistividade |-> FMul(Num(17, 100), DezElevadoMenos(6)),
                      permeabilidade |-> FInt(300),
                      permeabilidade_cobertura |-> FInt(10000000),
                      EPSILON |-> FInt(5),
                      diametro |-> diametro,
                      espessura_cobertura |-> espessura_cobertura,
                      impedancia_propria |-> Nenhum,
                      adimitancia |-> Nenhum,
                      impedancia_caracteristica |-> Nenhum,
                      constante_propagacao |-> Nenhum,
                      comprimento_caracteristico |-> Nenhum]}})

---------------------------------------------------------------------------
(* SpecDutoPy: an object of the class duto of duto.py is constructed from  *)
(* a diameter and a coating thickness, which the constructor does not      *)
(* validate; its attribute diametro is assigned and its methods are        *)
(* called.                                                                 *)

DiametroPyValores == {FInt(-1), FInt(0), Num(1, 2), FInt(1), FInt(2)}

EspessuraPyValores == {FInt(0), Num(1, 1000), Num(1, 100)}

InitDutoPy ==
    /\ solo = SoloPadrao
    /\ OMEGA = OMEGA_INICIAL
    /\ duto = Nenhum
    /\ cabos = <<>>
    /\ op = "init"
    /\ arg \in [diametro : DiametroPyValores,
                espessura_cobertura : EspessuraPyValores]
    /\ ret = Nenhum
    /\ varredura = Parada
    /\ primeira = Nenhum

\* duto(diametro, solo, espessura_cobertura, coordenadas)
ConstruirDutoPy ==
    /\ op = "init"
    /\ ret' = duto_init(arg.diametro, arg.espessura_cobertura,
                        [x |-> FInt(0), y |-> FInt(-1)])
    /\ duto' = IF "k" \in DOMAIN ret' THEN Nenhum ELSE ret'
    /\ op' = IF "k" \in DOMAIN ret' THEN "duto_py_erro" ELSE "duto_py"
    /\ UNCHANGED <<solo, OMEGA, cabos, arg, varredura, primeira>>

\* d.diametro = diametro, by the holder of the object
AtribuirDiametroPy ==
    /\ duto # Nenhum
    /\ \E diametro \in DiametroPyValores :
          /\ duto' = [duto EXCEPT !.diametro = diametro]
          /\ arg' = [arg EXCEPT !.diametro = diametro]
    /\ op' = "atribuir_diametro"
    /\ ret' = Nenhum
    /\ UNCHANGED <<solo, OMEGA, cabos, varredura, primeira>>

\* d.calcular_impedancia_caracteristica()
ChamarImpedanciaCaracteristicaPy ==
    /\ duto # Nenhum
    /\ op' = "impedancia_caracteristica_py"
    /\ ret' = calcular_impedancia_caracteristica_py(duto)
    /\ UNCHANGED <<solo, OMEGA, duto, cabos, arg, varredura, primeira>>

\* d.calcular_constante_propagacao()
ChamarConstantePropagacaoPy ==
    /\ duto # Nenhum
    /\ op' = "constante_propagacao_py"
    /\ ret' = calcular_constante_propagacao_py(duto)
    /\ UNCHANGED <<solo, OMEGA, duto, cabos, arg, varredura, primeira>>

\* d.calcular_comprimento_caracteristico()
ChamarComprimentoCaracteristico ==
    /\ duto # Nenhum
    /\ op' = "comprimento_caracteristico"
    /\ ret' = calcular_comprimento_caracteristico(duto)
    /\ UNCHANGED <<solo, OMEGA, duto, cabos, arg, varredura, primeira>>

NextDutoPy ==
    \/ ConstruirDutoPy
    \/ AtribuirDiametroPy
    \/ ChamarImpedanciaCaracteristicaPy
    \/ ChamarConstantePropagacaoPy
    \/ ChamarComprimentoCaracteristico

SpecDutoPy == InitDutoPy /\ [][NextDutoPy]_vars

\* The characteristic length the last operation computed
ComprimentoObtido ==
    IF op = "duto_py" THEN duto.comprimento_caracteristico ELSE ret

\* C12: the characteristic length of a pipeline is 1/Re(gamma) when
\* Re(gamma) > 0 and the infinite sentinel otherwise; it is never an
\* exception, never NaN and never negative (here for the class of duto.py,
\* at construction and at every call of its method).
C12_ComprimentoCaracteristico ==
    op \in {"duto_py", "comprimento_caracteristico"}
    => /\ ComprimentoObtido =
             IF FLt(FInt(0), duto.constante_propagacao.re)
             THEN FDivNp(FInt(1), duto.constante_propagacao.re)
             ELSE Inf(1)
       /\ ComprimentoObtido.k \notin {"raise", "nan"}
       /\ ~FLt(ComprimentoObtido, FInt(0))

---------------------------------------------------------------------------
(* SpecMaterial: the two classes Duto that take a material tag, of         *)
(* emi_system.py and of teste_basico.py, constructed with every tag of     *)
(* TagValores.                                                             *)

\* teste_basico.Duto.__init__: the tag is compared with "aco" only
Duto_teste(coordenadas, diametro, espessura_parede, espessura_revestimento, material) ==
    [coordenadas |-> coordenadas,
     diametro |-> diametro,
     raio_externo |-> FDivPy(diametro, FInt(2)),
     raio_interno |-> FSub(FDivPy(diametro, FInt(2)), espessura_parede),
     espessura_revestimento |-> espessura_revestimento,
     resistividade |-> IF material = "aco"
                       THEN FMul(Num(172, 100), DezElevadoMenos(7))
                       ELSE FMul(Num(282, 100), DezElevadoMenos(8)),
     permeabilidade_relativa |-> IF material = "aco" THEN FInt(300)
                                 ELSE FInt(1),
     resistividade_revestimento |-> FMul(FInt(10000), FInt(10000)),
     permissividade_revestimento |-> Num(23, 10)]

TagValores == {"aco", "aluminio", "cobre", "Aco", "pvc", ""}

InitMaterial ==
    /\ arg \in [diametro : DiametroValores, espessura_parede : ParedeValores,
                 material : TagValores]
    /\ op = "init"
    /\ varredura = Parada
    /\ primeira = Nenhum
    /\ ret = Nenhum
    /\ duto = Nenhum
    /\ solo = SoloPadrao
    /\ OMEGA = OMEGA_INICIAL
    /\ cabos = <<>>

\* emi_system.Duto(Coordenadas(0, 0, -1), diametro, espessura_parede, 1/4,
\* material); ret is the dict of the material properties
ConstruirDutoEmi ==
    /\ op = "init"
    /\ op' = "duto_emi"
    /\ duto' = Duto(Coordenadas(FInt(0), FInt(0), FInt(-1)), arg.diametro,
                    arg.espessura_parede, Num(1, 4), arg.material)
    /\ ret' = duto'.propriedades
    /\ UNCHANGED <<solo, OMEGA, cabos, arg, varredura, primeira>>

\* teste_basico.Duto(Coordenadas(0, 0, -1), diametro, espessura_parede, 1/4,
\* material); ret is its resistivity and relative permeability
ConstruirDutoTeste ==
    /\ op = "init"
    /\ op' = "duto_teste"
    /\ duto' = Duto_teste(Coordenadas(FInt(0), FInt(0), FInt(-1)), arg.diametro,
                          arg.espessura_parede, Num(1, 4), arg.material)
    /\ ret' = [resistividade |-> duto'.resistividade,
               permeabilidade_relativa |-> duto'.permeabilidade_relativa]
    /\ UNCHANGED <<solo, OMEGA, cabos, arg, varredura, primeira>>

NextMaterial == ConstruirDutoEmi \/ ConstruirDutoTeste

SpecMaterial == InitMaterial /\ [][NextMaterial]_vars

\* C13: a Duto constructed with a tag that is neither the steel tag nor the
\* aluminium tag has the properties of steel, resistivity 1.72e-7 ohm.m and
\* relative permeability 300, in both classes.
C13_MaterialDesconhecidoAco ==
    (op \in {"duto_emi", "duto_teste"} /\ arg.material \notin {"aco", "aluminio"})
    => ret = [resistividade |-> FMul(Num(172, 100), DezElevadoMenos(7)),
              permeabilidade_relativa |-> FInt(300)]

\* C14: the characteristic impedance and the propagation constant obtained
\* from the pipeline after any assignments to its diameter are sqrt(Z/Y)
\* and sqrt(Z*Y) of the self-impedance and admittance computed from the
\* parameters the pipeline has at the call (SpecDutoPy: the class of
\* duto.py).
C14_RecalculadoSempre ==
    /\ op = "impedancia_caracteristica_py"
       => ret = CSqrt(CDivNp(calcular_impdancia_propria(duto),
                             calcular_adimetancia(duto)))
    /\ op = "constante_propagacao_py"
       => ret = CSqrt(CMul(calcular_impdancia_propria(duto),
                           calcular_adimetancia(duto)))

---------------------------------------------------------------------------
(* SpecOrdem: the total induced voltage, the coating verdict and the       *)
(* corrosion risk of a line of three conductors, and of the line with the  *)
(* same conductors listed in the order arg.ordem.                          *)

OrdemValores == {<<1, 2, 3>>, <<1, 3, 2>>, <<2, 1, 3>>, <<2, 3, 1>>,
                 <<3, 1, 2>>, <<3, 2, 1>>}

\* comprimento_exposicao: 1 m and 1000 km
ComprimentoOrdem == {FInt(1), FInt(1000000)}

\* The list cs in the order ordem
Permutar(cs, ordem) == [i \in 1..Len(cs) |-> cs[ordem[i]]]

\* The total of calcular_tensao_induzida_total and what
\* avaliar_seguranca_revestimento and avaliar_risco_corrosao_ac make of it
AvaliacaoDaLinha(cs, d, p, omega, comprimento) ==
    Valor({(
        [tensao |-> tensao_induzida,
         seguro |-> avaliar_seguranca_revestimento(tensao_induzida, TRUE).seguro,
         risco |-> avaliar_risco_corrosao_ac(
                       calcular_densidade_corrente_ac(tensao_induzida, d, p))]
           ) : tensao_induzida \in
                 {calcular_tensao_induzida_total(cs, d, p, omega, comprimento)}})

InitOrdem ==
    /\ cabos \in {LinhaCom(cs) : cs \in [1..3 -> CorrenteValores]}
    /\ arg \in [ordem : OrdemValores, comprimento : ComprimentoOrdem]
    /\ duto = DutoEm(FInt(4), FInt(-2))
    /\ solo = SoloPadrao
    /\ OMEGA = OMEGA_INICIAL
    /\ op = "init"
    /\ varredura = Parada
    /\ primeira = Nenhum
    /\ ret = Nenhum

\* The analysis of LinhaTransmissao(cabos, solo)
ChamarNaOrdemDaLista ==
    /\ op = "init"
    /\ op' = "ordem"
    /\ ret' = AvaliacaoDaLinha(cabos, duto, solo, OMEGA, arg.comprimento)
    /\ primeira' = ret'
    /\ UNCHANGED <<solo, OMEGA, duto, cabos, arg, varredura>>

\* The analysis of LinhaTransmissao of the same conductors in another order
ChamarPermutada ==
    /\ op = "ordem"
    /\ op' = "ordem_permutada"
    /\ ret' = Valor({(AvaliacaoDaLinha(cs, duto, solo, OMEGA, arg.comprimento))
                        : cs \in {Permutar(cabos, arg.ordem)}})
    /\ UNCHANGED <<solo, OMEGA, duto, cabos, arg, varredura, primeira>>

NextOrdem == ChamarNaOrdemDaLista \/ ChamarPermutada

SpecOrdem == InitOrdem /\ [][NextOrdem]_vars

\* C15: the conductors listed in any other order give the same total
\* induced voltage in exact arithmetic, that is, the two floating-point
\* totals differ by no more than the rounding of the additions (in units of
\* 1/PRECISAO of the sum of the magnitudes of the contributions), and they
\* give the same coating verdict and the same corrosion-risk label.
C15_OrdemIrrelevante ==
    op = "ordem_permutada" =>
        /\ FLe(FMul(Norma1(CSub(ret.tensao, primeira.tensao)), FInt(PRECISAO)),
               FMul(FInt(ULPS_TOLERANCIA), SomaDasNormas(Len(cabos))))
        /\ ret.seguro = primeira.seguro
        /\ ret.risco = primeira.risco

\* three conductors with current listed in the order 2, 3, 1: the additions
\* round differently, and the coating is not safe
C15_Witness ==
    /\ op = "ordem_permutada"
    /\ arg.ordem = <<2, 3, 1>>
    /\ \A i \in 1..3 : cabos[i].corrente # CReal(FInt(0))
    /\ cabos[1].corrente # cabos[2].corrente
    /\ ret.tensao # primeira.tensao
    /\ ~ret.seguro

---------------------------------------------------------------------------
(* SpecLimiarSB: the two copies of the Struve-Bessel approximation on the  *)
(* real arguments n/10000 on both sides of the branch threshold 0.1, among *)
(* them 0.0999 and 0.1001.                                                 *)

ULimiarValores == {CReal(Num(n, 10000)) : n \in 975..1025}

InitLimiarSB ==
    /\ arg \in ULimiarValores
    /\ op = "init"
    /\ varredura = Parada
    /\ primeira = Nenhum
    /\ ret = CReal(FInt(0))
    /\ solo = SoloPadrao
    /\ OMEGA = OMEGA_INICIAL
    /\ duto = Nenhum
    /\ cabos = <<>>

SpecLimiarSB == InitLimiarSB /\ [][NextSB]_vars

\* C16: SB(0.0999), of the series branch, and SB(0.1001), of the
\* asymptotic branch, differ by less than 1e-3 in magnitude.
C16_ContinuidadeNoLimiar ==
    (op = "sb_mutua" /\ arg = CReal(Num(999, 10000)))
    => FLt(CAbs(CSub(ret, struve_bessel_approx(CReal(Num(1001, 10000))))),
           Num(1, 1000))

---------------------------------------------------------------------------
(* SpecSeparacao: the mutual impedance between a conductor at x = 0 and a  *)
(* pipe placed at the horizontal separations of Separacoes in turn, from   *)
(* the smallest to the largest, with the height of the conductor, the      *)
(* depth of the pipe, the soil and the frequency held fixed.  ret is the   *)
(* magnitude at the separation of index arg and primeira the magnitude at  *)
(* the separation before it.                                               *)

Separacoes == <<FInt(0), FInt(1), FInt(2), FInt(5), FInt(10), FInt(20),
                FInt(50), FInt(100), FInt(200), FInt(500), FInt(1000)>>

AlturaValores == {FInt(5), FInt(10), FInt(15)}

SoloValores == {SoloPadrao,
                ParametrosSolo(FInt(10), FInt(10), FInt(1), FInt(10)),
                SoloExemplo}

InitSeparacao ==
    /\ cabos \in {<<CaboEm(FInt(0), y, CReal(FInt(1)))>> : y \in AlturaValores}
    /\ duto \in {DutoEm(Separacoes[1], z) : z \in ProfundidadeValores}
    /\ solo \in SoloValores
    /\ OMEGA = OMEGA_INICIAL
    /\ op = "init"
    /\ arg = 0
    /\ ret = Nenhum
    /\ varredura = Parada
    /\ primeira = Nenhum

\* abs(lt.calcular_impedancia_mutua_carson_fechada(cabo, duto)) for the pipe
\* at the next separation
ChamarMutuaNaSeparacao ==
    /\ arg < Len(Separacoes)
    /\ arg' = arg + 1
    /\ duto' = [duto EXCEPT !.coordenadas.x = Separacoes[arg']]
    /\ primeira' = ret
    /\ ret' = CAbs(calcular_impedancia_mutua_carson_fechada(cabos[1], duto',
                                                            solo, OMEGA))
    /\ op' = "mutua_separacao"
    /\ UNCHANGED <<solo, OMEGA, cabos, varredura>>

NextSeparacao == ChamarMutuaNaSeparacao

SpecSeparacao == InitSeparacao /\ [][NextSeparacao]_vars

\* C17: with everything else fixed, the magnitude of the mutual impedance
\* at a larger horizontal separation is smaller than at a smaller one.
C17_DecresceComSeparacao ==
    (op = "mutua_separacao" /\ arg >= 2) => FLt(ret, primeira)

---------------------------------------------------------------------------
(* The sweeps of VisualizadorEMI in Spec *)

\* C18: when plotar_analise_parametros_solo has returned, the resistivities
\* of the two layers are the values they had before the call.  The sweep is
\* the only writer of the soil, which starts as SoloExemplo, so outside the
\* sweep the soil has the resistivities of SoloExemplo.
C18_SoloRestaurado ==
    varredura.pc # "solo"
    => /\ solo.resistividade_camada1 = SoloExemplo.resistividade_camada1
       /\ solo.resistividade_camada2 = SoloExemplo.resistividade_camada2

---------------------------------------------------------------------------
(* SpecDistancia and SpecIntercalada: the two distance sweeps of           *)
(* VisualizadorEMI, plotar_perfil_tensao_vs_distancia ("perfil") and       *)
(* _plot_tensao_distancia_simples ("simples"), on one pipe.  Each keeps    *)
(* the Coordenadas object of the pipe in a local, binds a new Coordenadas  *)
(* object to duto.coordenadas at every iteration and binds the kept one    *)
(* after the loop; no field of a Coordenadas object is assigned.  Here     *)
(* varredura[s] is the position of the sweep s with its local, and         *)
(* primeira the coordinates of the pipe before any sweep.  In              *)
(* SpecDistancia a sweep starts when no sweep is in progress, as in the    *)
(* one thread of main.py; in SpecIntercalada the steps of the two sweeps   *)
(* come in any order.                                                      *)

Varreduras == {"perfil", "simples"}

\* The ends of np.linspace(10, 100, 20) of _plot_tensao_distancia_simples
DistanciasSimples == <<FInt(10), FInt(100)>>

DistanciasDe(s) == IF s = "perfil" THEN Distancias ELSE DistanciasSimples

PosicaoInicialValores ==
    {Coordenadas(x, FInt(0), z) :
        x \in {FInt(0), FInt(1), FInt(4), FInt(5), FInt(100)},
        z \in ZDutoValores}

InitDistancia ==
    /\ duto \in {[DutoEm(FInt(0), FInt(-1)) EXCEPT !.coordenadas = c] :
                    c \in PosicaoInicialValores}
    /\ primeira = duto.coordenadas
    /\ varredura = [s \in Varreduras |-> Parada]
    /\ op = "init"
    /\ arg = FInt(0)
    /\ ret = Nenhum
    /\ solo = SoloPadrao
    /\ OMEGA = OMEGA_INICIAL
    /\ cabos = <<>>

\* coord_original = self.duto.coordenadas
IniciarVarredura(s) ==
    /\ varredura[s].pc = "parada"
    /\ varredura' = [varredura EXCEPT ![s] =
                        [pc |-> "distancia", i |-> 0, j |-> 0,
                         original |-> duto.coordenadas]]
    /\ op' = s
    /\ UNCHANGED <<solo, OMEGA, duto, cabos, arg, ret, primeira>>

\* An iteration that assigned the field x of the object bound to the pipe,
\* which is the object the local of every sweep that kept it refers to
PassoNoLugar(s) ==
    /\ varredura[s].pc = "distancia"
    /\ varredura[s].i < Len(DistanciasDe(s))
    /\ duto' = [duto EXCEPT !.coordenadas.x = DistanciasDe(s)[varredura[s].i + 1]]
    /\ varredura' =
          [t \in Varreduras |->
              IF t = s
              THEN [varredura[t] EXCEPT
                       !.i = @ + 1,
                       !.original = IF @ = duto.coordenadas
                                    THEN duto'.coordenadas ELSE @]
              ELSE IF varredura[t].original = duto.coordenadas
                   THEN [varredura[t] EXCEPT !.original = duto'.coordenadas]
                   ELSE varredura[t]]
    /\ op' = s
    /\ UNCHANGED <<solo, OMEGA, cabos, arg, ret, primeira>>

\* One iteration: self.duto.coordenadas = type(coord_original)(x=dist,
\* y=coord_original.y, z=coord_original.z)
PassoVarredura(s) ==
    /\ varredura[s].pc = "distancia"
    /\ varredura[s].i < Len(DistanciasDe(s))
    /\ varredura' = [varredura EXCEPT ![s].i = @ + 1]
    /\ duto' = [duto EXCEPT !.coordenadas =
                    Coordenadas(DistanciasDe(s)[varredura[s].i + 1],
                                varredura[s].original.y,
                                varredura[s].original.z)]
    /\ op' = s
    /\ UNCHANGED <<solo, OMEGA, cabos, arg, ret, primeira>>

\* After the loop: self.duto.coordenadas = coord_original
RestaurarVarredura(s) ==
    /\ varredura[s].pc = "distancia"
    /\ varredura[s].i = Len(DistanciasDe(s))
    /\ duto' = [duto EXCEPT !.coordenadas = varredura[s].original]
    /\ varredura' = [varredura EXCEPT ![s] = Parada]
    /\ op' = s
    /\ UNCHANGED <<solo, OMEGA, cabos, arg, ret, primeira>>

NenhumaEmCurso == \A s \in Varreduras : varredura[s].pc = "parada"

\* A sweep called when no sweep is in progress
IniciarSozinha(s) == NenhumaEmCurso /\ IniciarVarredura(s)

NextDistancia ==
    \E s \in Varreduras :
        \/ IniciarSozinha(s)
        \/ PassoVarredura(s)
        \/ RestaurarVarredura(s)

SpecDistancia == InitDistancia /\ [][NextDistancia]_vars

\* C19: when a distance sweep has returned, the coordinates of the pipe are
\* the (x, y, z) it had before the call, and during the sweep the
\* coordinate object the sweep kept is the one of before the call,
\* unmodified.
C19_CoordenadasRestauradas ==
    /\ NenhumaEmCurso => duto.coordenadas = primeira
    /\ \A s \in Varreduras :
          varredura[s].pc = "distancia" => varredura[s].original = primeira

\* _plot_tensao_distancia_simples has returned on a pipe that was at x = 4,
\* which is none of the swept distances
C19_Witness ==
    /\ op = "simples"
    /\ NenhumaEmCurso
    /\ primeira.x = FInt(4)
    /\ duto.coordenadas = primeira

NextIntercalada ==
    \E s \in Varreduras :
        \/ IniciarVarredura(s)
        \/ PassoVarredura(s)
        \/ RestaurarVarredura(s)

SpecIntercalada == InitDistancia /\ [][NextIntercalada]_vars

\* C20: however the steps of the two distance sweeps are interleaved, once
\* both have finished the coordinates of the pipe are those it had before
\* either started.
C20_IntercaladasRestauram ==
    NenhumaEmCurso => duto.coordenadas = primeira

---------------------------------------------------------------------------
(* SpecEspectro: plotar_espectro_frequencia(frequencias) with the list of  *)
(* frequencies arg, the empty list among them, called again and again on   *)
(* a module whose global OMEGA starts at any value of OmegaValores.        *)
(* primeira is the OMEGA of before any sweep; ret is, of the evaluation of *)
(* the mutual impedance of the first conductor in the last iteration, the  *)
(* frequency the equivalent resistivity ran with and the omega of the      *)
(* impedance terms.                                                        *)

FrequenciasValores == {<<>>, <<FInt(1)>>, <<FInt(1), FInt(1000)>>,
                       <<FInt(60), FInt(60)>>,
                       <<FInt(1000), FInt(1), FInt(50)>>}

OmegaValores == {OmegaDe(FInt(f)) : f \in {1, 50, 60, 400, 1000}}

InitEspectro ==
    /\ OMEGA \in OmegaValores
    /\ primeira = OMEGA
    /\ arg \in FrequenciasValores
    /\ varredura = Parada
    /\ op = "init"
    /\ ret = Nenhum
    /\ solo = SoloPadrao
    /\ duto = DutoEm(FInt(4), FInt(-2))
    /\ cabos = <<CaboEm(FInt(0), FInt(10), CReal(FInt(100)))>>

\* from emi_system import OMEGA; omega_original = OMEGA
IniciarEspectroCom ==
    /\ varredura.pc = "parada"
    /\ varredura' = [pc |-> "frequencia", i |-> 0, j |-> 0, original |-> OMEGA]
    /\ op' = "espectro"
    /\ UNCHANGED <<solo, OMEGA, duto, cabos, arg, ret, primeira>>

\* The frequency of the equivalent resistivity and the omega of the
\* impedance terms in one evaluation of the mutual impedance
FrequenciasDaAvaliacao(cabo, d, p, omega) ==
    Valor({ [frequencia |-> m.frequencia, omega |-> m.omega]
            : m \in {MutuaLocais(cabo, d, p, omega)} })

\* One iteration: emi_system.OMEGA = 2 * np.pi * freq, and the evaluation of
\* the mutual impedance in calcular_tensao_induzida_total(1000.0)
PassoEspectroCom ==
    /\ varredura.pc = "frequencia"
    /\ varredura.i < Len(arg)
    /\ varredura' = [varredura EXCEPT !.i = @ + 1]
    /\ OMEGA' = OmegaDe(arg[varredura.i + 1])
    /\ ret' = FrequenciasDaAvaliacao(cabos[1], duto, solo, OMEGA')
    /\ op' = "espectro"
    /\ UNCHANGED <<solo, duto, cabos, arg, primeira>>

\* The sweep that returns after the loop with the global as the loop left it
RetornarSemRestaurar ==
    /\ varredura.pc = "frequencia"
    /\ varredura.i = Len(arg)
    /\ varredura' = Parada
    /\ op' = "espectro"
    /\ UNCHANGED <<solo, OMEGA, duto, cabos, arg, ret, primeira>>

\* After the loop: emi_system.OMEGA = omega_original
RestaurarOmegaCom ==
    /\ varredura.pc = "frequencia"
    /\ varredura.i = Len(arg)
    /\ OMEGA' = varredura.original
    /\ varredura' = Parada
    /\ op' = "espectro"
    /\ UNCHANGED <<solo, duto, cabos, arg, ret, primeira>>

NextEspectro == IniciarEspectroCom \/ PassoEspectroCom \/ RestaurarOmegaCom

SpecEspectro == InitEspectro /\ [][NextEspectro]_vars

\* C21: when plotar_espectro_frequencia has returned, the global OMEGA is
\* the value it had when the sweep started, for every list of frequencies,
\* the empty one included; the value the sweep keeps is that value.
C21_OmegaRestaurado ==
    /\ varredura.pc = "parada" => OMEGA = primeira
    /\ varredura.pc = "frequencia" => varredura.original = primeira

\* The sweep over 1000, 1 and 50 Hz has returned on a module at 60 Hz
C21_Witness ==
    /\ op = "espectro"
    /\ varredura.pc = "parada"
    /\ Len(arg) = 3
    /\ primeira = OMEGA_INICIAL
    /\ OMEGA = OMEGA_INICIAL

\* The sweep over the empty list has returned
C21_WitnessVazia ==
    /\ op = "espectro"
    /\ varredura.pc = "parada"
    /\ arg = <<>>

\* C22: in every evaluation of the mutual impedance, the steps of the
\* frequency sweep included, the frequency the equivalent soil resistivity
\* is evaluated at is the frequency of the omega of the impedance terms:
\* omega = 2 pi frequencia.
C22_MesmaFrequencia ==
    ret # Nenhum => ret.omega = OmegaDe(ret.frequencia)

\* The evaluation at the default OMEGA, where the two frequencies agree
C22_NaFrequenciaPadrao ==
    (ret # Nenhum /\ ret.omega = OMEGA_INICIAL)
    => ret.frequencia = FInt(FREQ_PADRAO)

---------------------------------------------------------------------------
(* SpecRelatorio: gerar_relatorio_analise(arg) on one analysis, for the    *)
(* exposure lengths arg of ComprimentoRelatorio, from a millimetre to a    *)
(* thousand kilometres, which take the density through the three classes   *)
(* of risk and the voltage through the limit of the coating, and for the   *)
(* soils of SoloRelatorio, any three floats a ParametrosSolo is built      *)
(* with.  ret is the report.                                               *)

ComprimentoRelatorio ==
    {Num(n, 1000) : n \in {0, 5, 9, 10, 13, 14, 15, 30, 46, 47, 49, 50, 65,
                           66, 71, 72, 80}}
    \cup {FInt(n) : n \in {1, 1000, 10000, 100000, 1000000}}

\* A soil with negative layer resistivities
SoloNegativo == ParametrosSolo(FInt(-4), FInt(-4), FInt(1), FInt(10))

SoloRelatorio == {SoloExemplo, SoloPadrao, SoloNegativo}

InitRelatorio ==
    /\ arg \in ComprimentoRelatorio
    /\ solo \in SoloRelatorio
    /\ duto \in DutoValores
    /\ cabos = LinhaCom(<<CReal(FInt(100)), C(FInt(-50), Num(866, 10))>>)
    /\ OMEGA = OMEGA_INICIAL
    /\ op = "init"
    /\ ret = Nenhum
    /\ varredura = Parada
    /\ primeira = Nenhum

\* analise.gerar_relatorio_analise(arg)
GerarRelatorioCom ==
    /\ op' = "relatorio"
    /\ ret' = gerar_relatorio_analise(cabos, duto, solo, OMEGA, arg)
    /\ UNCHANGED <<solo, OMEGA, duto, cabos, arg, varredura, primeira>>

NextRelatorio == GerarRelatorioCom

SpecRelatorio == InitRelatorio /\ [][NextRelatorio]_vars

\* C23: a report is consistent with itself: the risk label is the lowest
\* iff the density reported, in mA/m2, is below 20 and the highest iff it is
\* 100 or more; the coating is reported safe iff the tensao_kv reported is
\* at most the limite_kv reported; the tensao_kv reported is the magnitude
\* reported divided by 1000.
C23_RelatorioConsistente ==
    op = "relatorio" =>
        LET a == ret.avaliacao_seguranca
            r == a.revestimento
        IN  /\ a.risco_corrosao \in {"Baixo", "Moderado", "Muito Alto"}
            /\ a.risco_corrosao = "Baixo"
                  <=> FLt(a.densidade_corrente_ma_m2, FInt(20))
            /\ a.risco_corrosao = "Muito Alto"
                  <=> FLe(FInt(100), a.densidade_corrente_ma_m2)
            /\ r.seguro <=> FLe(r.tensao_kv, r.limite_kv)
            /\ r.tensao_kv = FDivPy(ret.tensao_induzida.magnitude_v, FInt(1000))

\* The reports on a soil with positive resistivities are consistent
C23_ConsistenteEmSoloPositivo ==
    (/\ Positivo(solo.resistividade_camada1)
     /\ Positivo(solo.resistividade_camada2))
    => C23_RelatorioConsistente

---------------------------------------------------------------------------
(* The coating check at zero voltage, in SpecRevestimento *)

\* C24: avaliar_seguranca_revestimento returns a verdict and raises nothing
\* for every induced voltage; for a voltage of exactly zero, the 0j of an
\* empty sum included, the coating is reported safe and the safety margin
\* is a value, not a NaN.
C24_VeredictoSemExcecao ==
    /\ op # "revestimento_erro"
    /\ (op = "revestimento" /\ arg.tensao = CReal(FInt(0)))
       => (ret.seguro /\ ret.fator_seguranca.k # "nan")

\* The zero voltage as a numpy complex, that of a line whose conductors all
\* carry zero current: safe, with an infinite margin
C24_ZeroNumpy ==
    (op = "revestimento" /\ arg.tensao = CReal(FInt(0)))
    => (arg.numpy /\ ret.seguro /\ ret.fator_seguranca = Inf(1))

============================================================================
